---- MODULE Spec2Model ----
(***************************************************************************)
(* Privacy Cash Rust SDK: the UTXO scanner (get_utxos / get_utxos_spl),    *)
(* the client's withdraw_all and deposit_spl, the Merkle accumulator, the  *)
(* EncryptionService at byte level, and the pure functions of utxo.rs and  *)
(* utils.rs.                                                               *)
(*                                                                         *)
(* Field elements are records [n |-> k]; a hash digest is the record       *)
(* [h |-> inputs], i.e. the hash is modelled as an ideal (collision-free)  *)
(* function of the parsed inputs.  An Option is <<>> (None) or <<x>>.      *)
(***************************************************************************)
EXTENDS Integers, Sequences, FiniteSets, TLC

(* ------------------------------ bounds --------------------------------- *)

\* Longest ledger log of encrypted outputs the model explores.
MaxLog == 2

\* Page size of the range request (constants::FETCH_UTXOS_GROUP_SIZE), scaled
\* down so that a scan of the bounded log needs several pages.
FETCH_UTXOS_GROUP_SIZE == 1

\* Largest amount a deposit_spl call is given.
MaxDeposit == 1

\* Largest amount of an output somebody else's transaction appends.
MaxAmount == 1

\* Deepest Merkle tree the model explores (MERKLE_TREE_DEPTH is 26; the
\* tests of merkle_tree.rs use 2 and 4).
MaxLevels == 2

\* Width in bits of the machine integers of the model: i64 and u64 are scaled
\* down to IntBits bits, so that their limits are within reach.
IntBits == 3

\* Longest list of UTXOs handed to a library function.
MaxList == 3

\* Longest list of leaves handed to MerkleTree::bulk_insert.
MaxBulk == 2

(* --------------------------- basic helpers ----------------------------- *)

None == <<>>

Some(x) == <<x>>

IsSome(o) == Len(o) > 0

Unwrap(o) == o[1]

UnwrapOr(o, d) == IF IsSome(o) THEN o[1] ELSE d

\* Result: Ok(value) or Err(error).
Ok(v) == [ok |-> TRUE, value |-> v]

Err(e) == [ok |-> FALSE, err |-> e]

\* A panic that unwinds out of the call (no value is returned).
Panic(msg) == [ok |-> FALSE, panic |-> msg]

\* i64::MIN, i64::MAX and u64::MAX at the model's width.
I64_MIN == -(2 ^ (IntBits - 1))

I64_MAX == 2 ^ (IntBits - 1) - 1

U64_MAX == 2 ^ IntBits - 1

\* `x as u64`: the two's-complement reinterpretation of an i64.
as_u64(x) == x % (2 ^ IntBits)

\* `x as i64` of a u64: the two's-complement reading of the same bits.
as_i64(x) ==
    LET bits == x % (2 ^ IntBits)
    IN  IF bits > I64_MAX THEN bits - 2 ^ IntBits ELSE bits

\* Unary minus on an i64: with overflow checks (the dev and test profiles) the
\* negation of i64::MIN panics, without them (the release profile) it wraps
\* to i64::MIN.
neg_i64(x, overflow_checks) ==
    IF x = I64_MIN
    THEN IF overflow_checks THEN Panic("attempt to negate with overflow") ELSE Ok(I64_MIN)
    ELSE Ok(-x)

\* constants::FIELD_SIZE, the BN254 scalar field prime, scaled down with the
\* integer width: it stays far above u64::MAX + |i64::MIN|.
FIELD_SIZE == 2 ^ (IntBits + 2) - 3

Max(a, b) == IF a >= b THEN a ELSE b

Min(a, b) == IF a <= b THEN a ELSE b

RECURSIVE SeqSum(_)
SeqSum(s) == IF s = <<>> THEN 0 ELSE Head(s) + SeqSum(Tail(s))

\* Every ordering of a finite set (the iteration order of a HashSet, or of a
\* JSON array written from one, is unspecified).
Orderings(S) ==
    {q \in [1..Cardinality(S) -> S] : \A i, j \in 1..Cardinality(S) : q[i] = q[j] => i = j}

(* ------------------------ keypair and hashing -------------------------- *)

\* A decimal string parsed by BigUint::parse_bytes: the field element it denotes.
F(k) == [n |-> k]

\* Only the first input reaches the hasher.
poseidon_hash_first_only(inputs) == [h |-> <<inputs[1]>>]

\* ZkKeypair::poseidon_hash: a digest determined by the whole input list.
poseidon_hash(inputs) == [h |-> inputs]

\* ZkKeypair::poseidon_hash_strings: parse each decimal string, hash, print.
poseidon_hash_strings(inputs) == poseidon_hash(inputs)

\* A string BigUint::parse_bytes(_, 10) rejects.
NotDecimal == [text |-> "x"]

\* BigUint::parse_bytes(s, 10).is_some(): numbers and printed digests parse.
parses(s) == s # NotDecimal

\* ZkKeypair::poseidon_hash_strings as a Result: InvalidKeypair when an input
\* is not a decimal string.
try_poseidon_hash_strings(inputs) ==
    IF \A k \in 1..Len(inputs) : parses(inputs[k])
    THEN Ok(poseidon_hash_strings(inputs))
    ELSE Err([kind |-> "InvalidKeypair", msg |-> "Invalid input"])

\* The wallets of the model: the caller and somebody else.
Me == "me"

Other == "other"

Wallets == {Me, Other}

\* The UTXO private key the encryption service derives from a wallet signature.
utxo_private_key(wallet) == IF wallet = Me THEN F(11) ELSE F(12)

\* ZkKeypair::from_hex: pubkey = Hash([privkey]).
ZkKeypair(privkey) == [privkey |-> privkey, pubkey |-> poseidon_hash(<<privkey>>)]

\* ZkKeypair::sign: Hash([privkey, commitment, merkle_path]).
sign(keypair, commitment, merkle_path) ==
    poseidon_hash(<<keypair.privkey, commitment, merkle_path>>)

(* ------------------------------- Utxo ---------------------------------- *)

SOL_MINT == "11111111111111111111111111111112"

USDC_MINT == "EPjFWdd5AufqSSqeM2qN1xzybapC8G4wEGGkZwyTDt1v"

\* Utxo::get_mint_address_field: the mint string for SOL, the first 31 bytes
\* of the mint as a number for a token.
get_mint_address_field(mint_address) ==
    IF mint_address = SOL_MINT THEN F(1) ELSE F(2)

\* UtxoVersion.
UtxoVersions == {"V1", "V2"}

\* Utxo::with_blinding, with the default version (V2).
Utxo(amount, blinding, keypair, index, mint_address) ==
    [amount |-> amount, blinding |-> blinding, keypair |-> keypair,
     index |-> index, mint_address |-> mint_address, version |-> "V2"]

\* Utxo::amount_u64: amount.to_u64().unwrap_or(0); an amount (a BigUint)
\* above u64::MAX converts to 0.
amount_u64(utxo) == IF utxo.amount <= U64_MAX THEN utxo.amount ELSE 0

\* Utxo::is_dummy.
is_dummy(utxo) == utxo.amount = 0

\* The position of the UTXO in the tree is hashed in as well.
get_commitment_with_index(utxo) ==
    poseidon_hash_strings(<<F(utxo.amount), utxo.keypair.pubkey, F(utxo.blinding),
                            get_mint_address_field(utxo.mint_address), F(utxo.index)>>)

\* Utxo::get_commitment = Hash(amount, pubkey, blinding, mintAddressField).
get_commitment(utxo) ==
    poseidon_hash_strings(<<F(utxo.amount), utxo.keypair.pubkey, F(utxo.blinding),
                            get_mint_address_field(utxo.mint_address)>>)

\* The index is left out of the hash and of the signature.
get_nullifier_without_index(utxo) ==
    LET commitment == get_commitment(utxo)
    IN  poseidon_hash_strings(<<commitment, sign(utxo.keypair, commitment, F(0))>>)

\* Utxo::get_nullifier = Hash(commitment, index, sign(commitment, index)).
get_nullifier(utxo) ==
    LET commitment == get_commitment(utxo)
    IN  poseidon_hash_strings(<<commitment, F(utxo.index),
                                sign(utxo.keypair, commitment, F(utxo.index))>>)

\* Iterator::sum over u64 values: a total above u64::MAX panics with overflow
\* checks and wraps around without them.
sum_u64(values, overflow_checks) ==
    LET total == SeqSum(values)
    IN  IF total <= U64_MAX THEN Ok(total)
        ELSE IF overflow_checks THEN Panic("attempt to add with overflow")
        ELSE Ok(total % (2 ^ IntBits))

\* get_balance_from_utxos under a build: the u64 sum of amount_u64.
get_balance(utxos, overflow_checks) ==
    sum_u64([i \in 1..Len(utxos) |-> amount_u64(utxos[i])], overflow_checks)

\* get_balance_from_utxos / get_balance_from_utxos_spl, as the client calls
\* them: the balance returned (the builds differ only when the sum overflows).
get_balance_from_utxos(utxos) == get_balance(utxos, FALSE).value

\* utils::calculate_public_amount(ext_amount: i64, fee: u64): the external
\* amount as a field element (FIELD_SIZE - |ext_amount| when negative), minus
\* the fee, with wrap-around in the field.
calculate_public_amount(ext_amount, fee, overflow_checks) ==
    LET abs_amount == neg_i64(ext_amount, overflow_checks)
    IN  IF ext_amount < 0 /\ ~abs_amount.ok
        THEN abs_amount
        ELSE LET ext_bn == IF ext_amount >= 0
                           THEN as_u64(ext_amount)
                           ELSE FIELD_SIZE - as_u64(abs_amount.value)
                 result == IF ext_bn >= fee
                           THEN ext_bn - fee
                           ELSE FIELD_SIZE - (fee - ext_bn)
             IN  Ok(result % FIELD_SIZE)

(* ----------------------------- encryption ------------------------------ *)

\* EncryptionService::encrypt_utxo: the payload amount|blinding|index|mint
\* under the wallet's key and a fresh nonce.
encrypt_utxo(wallet, nonce, utxo) ==
    [form |-> "utxo", key |-> wallet, nonce |-> nonce, amount |-> utxo.amount,
     blinding |-> utxo.blinding, index |-> utxo.index,
     mint_address |-> utxo.mint_address]

\* What a log item can be instead of an encrypted UTXO: a string that is not
\* hex, or the hex of data that decrypts under the key but is no UTXO payload.
MalformedForms == {"not hex", "not a utxo"}

\* A log item of one of these forms; the payload fields carry nothing.
malformed_output(form, wallet, nonce) ==
    [form |-> form, key |-> wallet, nonce |-> nonce, amount |-> 0,
     blinding |-> 0, index |-> 0, mint_address |-> ""]

\* EncryptionService::decrypt_utxo_from_hex: the UTXO when the string is hex,
\* the ciphertext authenticates under the service's key and the plaintext
\* parses as a UTXO payload; an error (None) otherwise.
decrypt_utxo_from_hex(wallet, encrypted) ==
    IF encrypted.form = "utxo" /\ encrypted.key = wallet
    THEN Some(Utxo(encrypted.amount, encrypted.blinding,
                   ZkKeypair(utxo_private_key(wallet)), encrypted.index,
                   encrypted.mint_address))
    ELSE None

(* ------------------------------- state --------------------------------- *)

VARIABLES
    asset,               \* "SOL" (get_utxos) or "SPL" (get_utxos_spl); fixed
    log,                 \* the relayer's append-only log of encrypted outputs
    nullifier_accounts,  \* the ledger's nullifier PDAs: <<seed prefix, nullifier>>
    storage,             \* the persistent cache entries of the caller's key
    abort_signal,        \* the caller-owned shared abort flag
    scan,                \* the locals of the scanner run in progress
    op,                  \* the client operation in progress
    found,               \* history: nonces found unspent on a committed page
    after_deposit,       \* history: the last confirmed deposit, until re-scanned
    tree,                \* a MerkleTree
    last,                \* history: the last call on the tree and its result
    service,             \* an EncryptionService: its four cached keys
    wire,                \* the encrypted data last produced or tampered with
    call,                \* history: the last library call and its outcome
    dep                  \* a deposit_spl call: its arguments, locals and position

clientVars == <<asset, log, nullifier_accounts, storage, abort_signal, scan, op,
                found, after_deposit>>

libVars == <<service, wire, call, dep>>

vars == <<asset, log, nullifier_accounts, storage, abort_signal, scan, op,
          found, after_deposit, tree, last, service, wire, call, dep>>

\* The mint whose tree the scanned log belongs to.
mint_address == IF asset = "SOL" THEN SOL_MINT ELSE USDC_MINT

\* Blinding factors Utxo::new draws (rng.gen::<u64>() % 1_000_000_000).
Blindings == {7}

EmptyStorage == [fetch_offset |-> None, encrypted_outputs |-> None]

\* storage.get(LSK_FETCH_OFFSET + key).and_then(parse).unwrap_or(0)
stored_fetch_offset(st) == UnwrapOr(st.fetch_offset, 0)

IdleScan ==
    [pc |-> "idle", abortable |-> FALSE, valid_utxos |-> <<>>, valid_strings |-> <<>>,
     round_start_index |-> 0, fetch_offset |-> 0, fetched_utxos |-> <<>>,
     encrypted_outputs |-> <<>>, has_more |-> FALSE, len |-> 0, result |-> None,
     requests |-> 0, pages |-> 0, committed |-> None, entry_storage |-> EmptyStorage,
     req_at_commit |-> 0]

IdleOp == [kind |-> "none", call |-> "none", recipient |-> None, base_units |-> 0, next_index |-> 0,
           result |-> None, withdraw_calls |-> <<>>, balance |-> None, net_calls |-> 0,
           tx |-> None]

(* ------------------- the relayer, indexer and ledger ------------------- *)

\* GET /utxos/range?start&end: the page [start, start + GROUP_SIZE) of the log.
range_response(start) ==
    [encrypted_outputs |->
         SubSeq(log, start + 1, Min(start + FETCH_UTXOS_GROUP_SIZE, Len(log))),
     has_more |-> start + FETCH_UTXOS_GROUP_SIZE < Len(log)]

\* POST /utxos/indices: the tree index of an encrypted output of the log.
fetch_utxo_index(encrypted) ==
    (CHOOSE i \in 1..Len(log) : log[i] = encrypted) - 1

\* The UTXO an encrypted output of the log carries, as its owner reads it.
owner_utxo(encrypted) ==
    [Unwrap(decrypt_utxo_from_hex(encrypted.key, encrypted))
        EXCEPT !.index = fetch_utxo_index(encrypted)]

\* connection.get_multiple_accounts on one PDA: whether the account exists.
account_exists(prefix, nullifier) == <<prefix, nullifier>> \in nullifier_accounts

(* ------------------------------ scanner -------------------------------- *)

\* The loop ends at the first item that does not decrypt.
decrypt_outputs_until_failure(encrypted_outputs) ==
    LET failing == {i \in 1..Len(encrypted_outputs) :
                       ~IsSome(decrypt_utxo_from_hex(Me, encrypted_outputs[i]))}
        stop == IF failing = {} THEN Len(encrypted_outputs) + 1
                ELSE CHOOSE i \in failing : \A j \in failing : i <= j
        outputs == SubSeq(encrypted_outputs, 1, stop - 1)
    IN  [outputs |-> outputs,
         utxos |-> [i \in 1..Len(outputs) |->
                      [Unwrap(decrypt_utxo_from_hex(Me, outputs[i]))
                          EXCEPT !.index = fetch_utxo_index(outputs[i])]],
         calls |-> IF outputs = <<>> THEN 0 ELSE 1]

\* decrypt_outputs / decrypt_outputs_spl: trial-decrypt every item, drop the
\* failures, then overwrite each index with the one the indexer reports.
decrypt_outputs(encrypted_outputs) ==
    LET owned(e) == IsSome(decrypt_utxo_from_hex(Me, e))
        outputs == SelectSeq(encrypted_outputs, owned)
    IN  [outputs |-> outputs,
         utxos |-> [i \in 1..Len(outputs) |->
                      [Unwrap(decrypt_utxo_from_hex(Me, outputs[i]))
                          EXCEPT !.index = fetch_utxo_index(outputs[i])]],
         calls |-> IF outputs = <<>> THEN 0 ELSE 1]

\* Only the nullifier0 PDA is looked up.
are_utxos_spent_nullifier0_only(utxos) ==
    [i \in 1..Len(utxos) |-> account_exists("nullifier0", get_nullifier(utxos[i]))]

\* are_utxos_spent: per UTXO, whether the nullifier0 or the nullifier1 PDA exists.
are_utxos_spent(utxos) ==
    [i \in 1..Len(utxos) |->
        \/ account_exists("nullifier0", get_nullifier(utxos[i]))
        \/ account_exists("nullifier1", get_nullifier(utxos[i]))]

\* Every decrypted entry is kept, whatever its amount and the ledger say.
unspent_indexes_all_owned(fetched_utxos) ==
    [i \in 1..Len(fetched_utxos) |-> i]

\* The entries of fetched_utxos that the page loop keeps: non-zero and unspent.
unspent_indexes(fetched_utxos) ==
    LET non_zero(i) == amount_u64(fetched_utxos[i]) > 0
        nz == SelectSeq([i \in 1..Len(fetched_utxos) |-> i], non_zero)
        spent_flags == are_utxos_spent([k \in 1..Len(nz) |-> fetched_utxos[nz[k]]])
        keep(k) == ~spent_flags[k]
        kept == SelectSeq([k \in 1..Len(nz) |-> k], keep)
    IN  [k \in 1..Len(kept) |-> nz[kept[k]]]

\* Whether the page has a UTXO to look up on the ledger.
has_non_zero(fetched_utxos) ==
    \E i \in 1..Len(fetched_utxos) : amount_u64(fetched_utxos[i]) > 0

\* get_utxos_spl's final filter; get_utxos returns the list as it is.
filter_by_mint(utxos) ==
    LET same(u) == u.mint_address = mint_address
    IN  IF asset = "SPL" THEN SelectSeq(utxos, same) ELSE utxos

\* Entry of get_utxos / get_utxos_spl, up to the first suspension.
scan_begin(abortable) ==
    [IdleScan EXCEPT !.pc = "loop", !.abortable = abortable,
                     !.round_start_index = stored_fetch_offset(storage),
                     !.committed = storage.fetch_offset,
                     !.entry_storage = storage]

\* The abort check fetches the page before it returns, so a cancelled run
\* has made one more request than its committed pages account for.
loop_head_fetch_first(sc, flag) ==
    IF sc.abortable /\ flag
    THEN [sc EXCEPT !.pc = "returned", !.result = Some(Err("Aborted")),
                    !.requests = @ + 1]
    ELSE [sc EXCEPT !.pc = "fetch",
                    !.fetch_offset = Max(stored_fetch_offset(storage), sc.round_start_index),
                    !.requests = @ + 1]

\* Once a page has been applied, the next request starts one group past the
\* persisted offset: a page of the log is skipped.
loop_head_skipping(sc, flag) ==
    IF sc.abortable /\ flag
    THEN [sc EXCEPT !.pc = "returned", !.result = Some(Err("Aborted"))]
    ELSE [sc EXCEPT !.pc = "fetch",
                    !.fetch_offset = Max(stored_fetch_offset(storage), sc.round_start_index)
                                     + (IF sc.pages > 0 THEN FETCH_UTXOS_GROUP_SIZE ELSE 0),
                    !.requests = @ + 1]

\* Top of the page loop: the abort flag is loaded; if set the run returns
\* Aborted, otherwise fetch_offset = max(stored offset, round_start_index)
\* and the range request is sent.
loop_head(sc, flag) ==
    IF sc.abortable /\ flag
    THEN [sc EXCEPT !.pc = "returned", !.result = Some(Err("Aborted"))]
    ELSE [sc EXCEPT !.pc = "fetch",
                    !.fetch_offset = Max(stored_fetch_offset(storage), sc.round_start_index),
                    !.requests = @ + 1]

\* One pass through the top of the page loop.
ScanLoopHead ==
    /\ scan.pc = "loop"
    /\ scan' = loop_head(scan, abort_signal)
    /\ UNCHANGED <<libVars, tree, last, asset, log, nullifier_accounts, storage, abort_signal, op, found,
                   after_deposit>>

\* The last page is merged with the cached strings and also with the strings
\* the run has collected on its earlier pages.
ScanFetchMergingOwn ==
    /\ scan.pc = "fetch"
    /\ LET page == range_response(scan.fetch_offset)
           fresh == decrypt_outputs(page.encrypted_outputs)
           use_cache == ~page.has_more
           cached_set == IF use_cache
                         THEN UnwrapOr(storage.encrypted_outputs, {})
                              \cup {scan.valid_strings[k] : k \in 1..Len(scan.valid_strings)}
                         ELSE {}
       IN  \E cached_outputs \in Orderings(cached_set) :
             LET cached == decrypt_outputs(cached_outputs)
             IN  scan' = [scan EXCEPT
                            !.pc = "classify",
                            !.fetched_utxos = fresh.utxos \o cached.utxos,
                            !.encrypted_outputs = fresh.outputs \o cached.outputs,
                            !.has_more = page.has_more,
                            !.len = Len(page.encrypted_outputs),
                            !.requests = @ + fresh.calls + cached.calls]
    /\ UNCHANGED <<libVars, tree, last, asset, log, nullifier_accounts, storage, abort_signal, op,
                   found, after_deposit>>

\* fetch_user_utxos: the page arrives and is trial-decrypted; on the last page
\* the cached owned outputs are decrypted too.
ScanFetch ==
    /\ scan.pc = "fetch"
    /\ LET page == range_response(scan.fetch_offset)
           fresh == decrypt_outputs(page.encrypted_outputs)
           use_cache == ~page.has_more /\ IsSome(storage.encrypted_outputs)
           cached_set == IF use_cache THEN Unwrap(storage.encrypted_outputs) ELSE {}
       IN  \E cached_outputs \in Orderings(cached_set) :
             LET cached == decrypt_outputs(cached_outputs)
             IN  scan' = [scan EXCEPT
                            !.pc = "classify",
                            !.fetched_utxos = fresh.utxos \o cached.utxos,
                            !.encrypted_outputs = fresh.outputs \o cached.outputs,
                            !.has_more = page.has_more,
                            !.len = Len(page.encrypted_outputs),
                            !.requests = @ + fresh.calls + cached.calls]
    /\ UNCHANGED <<libVars, tree, last, asset, log, nullifier_accounts, storage, abort_signal, op,
                   found, after_deposit>>

\* The rest of the iteration: spent check, accumulation, the offset write and,
\* after the last page, the owned-output write and the return.
ScanClassify ==
    /\ scan.pc = "classify"
    /\ LET keep == unspent_indexes(scan.fetched_utxos)
           valid_utxos == scan.valid_utxos \o
                          [k \in 1..Len(keep) |-> scan.fetched_utxos[keep[k]]]
           valid_strings == scan.valid_strings \o
                          [k \in 1..Len(keep) |-> scan.encrypted_outputs[keep[k]]]
           new_offset == scan.fetch_offset + scan.len
           rpc == IF has_non_zero(scan.fetched_utxos) THEN 1 ELSE 0
           unique_strings == {valid_strings[k] : k \in 1..Len(valid_strings)}
       IN  /\ scan' = [scan EXCEPT
                          !.pc = IF scan.has_more THEN "loop" ELSE "returned",
                          !.valid_utxos = valid_utxos,
                          !.valid_strings = valid_strings,
                          !.result = IF scan.has_more THEN None
                                     ELSE Some(Ok(filter_by_mint(valid_utxos))),
                          !.requests = @ + rpc,
                          !.req_at_commit = scan.requests + rpc,
                          !.pages = @ + 1,
                          !.committed = Some(new_offset)]
           /\ storage' = [fetch_offset |-> Some(new_offset),
                          encrypted_outputs |->
                              IF scan.has_more THEN storage.encrypted_outputs
                              ELSE Some(unique_strings)]
           /\ found' = found \cup {scan.encrypted_outputs[keep[k]].nonce : k \in 1..Len(keep)}
    /\ UNCHANGED <<libVars, tree, last, asset, log, nullifier_accounts, abort_signal, op, after_deposit>>

\* The offset of the page is written as soon as the page has arrived, so a
\* failed spent check leaves it advanced.
ScanErrorAfterWrite ==
    /\ \/ /\ scan.pc = "fetch"
          /\ scan' = [scan EXCEPT !.pc = "returned", !.result = Some(Err("ApiError"))]
          /\ UNCHANGED storage
       \/ /\ scan.pc = "classify"
          /\ has_non_zero(scan.fetched_utxos)
          /\ scan' = [scan EXCEPT !.pc = "returned",
                                  !.result = Some(Err("SolanaClientError"))]
          /\ storage' = [storage EXCEPT !.fetch_offset = Some(scan.fetch_offset + scan.len)]
    /\ UNCHANGED <<libVars, tree, last, asset, log, nullifier_accounts, abort_signal, op,
                   found, after_deposit>>

\* A propagated error: the range or indices request fails (ApiError), or the
\* account lookup fails (SolanaClientError).
ScanError ==
    /\ \/ /\ scan.pc = "fetch"
          /\ scan' = [scan EXCEPT !.pc = "returned", !.result = Some(Err("ApiError"))]
       \/ /\ scan.pc = "classify"
          /\ has_non_zero(scan.fetched_utxos)
          /\ scan' = [scan EXCEPT !.pc = "returned",
                                  !.result = Some(Err("SolanaClientError"))]
    /\ UNCHANGED <<libVars, tree, last, asset, log, nullifier_accounts, storage, abort_signal, op,
                   found, after_deposit>>

\* The process dies between the offset write and the owned-output write of
\* the last page: the first is on disk, the second is not.
CrashMidCommit ==
    /\ scan.pc = "classify"
    /\ ~scan.has_more
    /\ LET keep == unspent_indexes(scan.fetched_utxos)
       IN  found' = found \cup {scan.encrypted_outputs[keep[k]].nonce : k \in 1..Len(keep)}
    /\ storage' = [storage EXCEPT !.fetch_offset = Some(scan.fetch_offset + scan.len)]
    /\ scan' = IdleScan
    /\ op' = IdleOp
    /\ abort_signal' = FALSE
    /\ after_deposit' = None
    /\ UNCHANGED <<libVars, tree, last, asset, log, nullifier_accounts>>

\* The process dies at a suspension point of a run; the storage stays.
Crash ==
    /\ scan.pc \in {"loop", "fetch", "classify"}
    /\ scan' = IdleScan
    /\ op' = IdleOp
    /\ abort_signal' = FALSE
    /\ after_deposit' = None
    /\ UNCHANGED <<libVars, tree, last, asset, log, nullifier_accounts, storage, found>>

(* --------------------------- client operations -------------------------- *)

\* get_utxos / get_utxos_spl called by the application, with or without an
\* abort signal; a signal handed in may already be set.
GetUtxosCall ==
    /\ op.kind = "none"
    /\ \E abortable \in BOOLEAN, already_set \in BOOLEAN :
         /\ scan' = scan_begin(abortable)
         /\ abort_signal' = (abortable /\ already_set)
    /\ op' = [IdleOp EXCEPT !.kind = "get_utxos", !.call = "get_utxos"]
    /\ UNCHANGED <<libVars, tree, last, asset, log, nullifier_accounts, storage, found, after_deposit>>

\* The application takes the result of get_utxos.
GetUtxosReturn ==
    /\ op.kind = "get_utxos"
    /\ scan.pc = "returned"
    /\ op' = IdleOp
    /\ scan' = IdleScan
    /\ abort_signal' = FALSE
    /\ after_deposit' = None
    /\ UNCHANGED <<libVars, tree, last, asset, log, nullifier_accounts, storage, found>>

\* Recipients a withdrawal may be given; None is the caller's own address.
Recipients == {None, Some("recipient")}

self_pubkey == "self"

\* The recipient handed in is dropped.
withdraw_to_self(lamports, recipient) ==
    [amount |-> lamports, recipient |-> self_pubkey]

\* PrivacyCash::withdraw, PrivacyCash::withdraw_spl: the call handed to the
\* withdrawal with recipient.unwrap_or(&self_pubkey).
withdraw(lamports, recipient) ==
    [amount |-> lamports, recipient |-> UnwrapOr(recipient, self_pubkey)]

\* The zero check is missing: a withdrawal of 0 is started.
withdraw_all_unchecked(balance, recipient) ==
    [result |-> Ok("withdraw"), withdraw_calls |-> <<withdraw(balance, recipient)>>]

\* PrivacyCash::withdraw_all / withdraw_all_spl after the balance is known.
withdraw_all_decide(balance, recipient) ==
    IF balance = 0
    THEN [result |-> Err([kind |-> "InsufficientBalance", need |-> 1, have |-> 0]),
          withdraw_calls |-> <<>>]
    ELSE [result |-> Ok("withdraw"),
          withdraw_calls |-> <<withdraw(balance, recipient)>>]

\* withdraw_all / withdraw_all_spl: starts with get_private_balance, i.e. a
\* scanner run without an abort signal.
WithdrawAllCall ==
    /\ op.kind = "none"
    /\ \E recipient \in Recipients :
         op' = [IdleOp EXCEPT !.kind = "withdraw_all", !.call = "withdraw_all",
                              !.recipient = recipient]
    /\ scan' = scan_begin(FALSE)
    /\ UNCHANGED <<libVars, tree, last, asset, log, nullifier_accounts, storage, abort_signal, found,
                   after_deposit>>

\* The balance scan returned: propagate its error, or decide.
WithdrawAllFinish ==
    /\ op.kind = "withdraw_all"
    /\ scan.pc = "returned"
    /\ LET r == Unwrap(scan.result)
           balance == get_balance_from_utxos(r.value)
           d == withdraw_all_decide(balance, op.recipient)
       IN  op' = IF r.ok
                 THEN [op EXCEPT !.kind = "done", !.result = Some(d.result),
                                 !.withdraw_calls = d.withdraw_calls,
                                 !.balance = Some(balance),
                                 !.net_calls = scan.requests]
                 ELSE [op EXCEPT !.kind = "done", !.result = Some(r),
                                 !.net_calls = scan.requests]
    /\ scan' = IdleScan
    /\ after_deposit' = None
    /\ UNCHANGED <<libVars, tree, last, asset, log, nullifier_accounts, storage, abort_signal, found>>

\* The application takes the result of a finished operation.
OpReturn ==
    /\ op.kind = "done"
    /\ op' = IdleOp
    /\ UNCHANGED <<libVars, tree, last, asset, log, nullifier_accounts, storage, abort_signal, scan,
                   found, after_deposit>>

(* ---------------------------- deposit_spl ------------------------------ *)

fee_base_units == 0

\* Utxo::dummy.
dummy(keypair, blinding) == Utxo(0, blinding, keypair, 0, mint_address)

\* deposit_spl's input selection: the first two existing UTXOs, padded with
\* dummies.
deposit_inputs(existing_utxos, keypair, blinding) ==
    IF existing_utxos = <<>>
    THEN <<dummy(keypair, blinding), dummy(keypair, blinding)>>
    ELSE <<existing_utxos[1],
           IF Len(existing_utxos) > 1 THEN existing_utxos[2]
           ELSE dummy(keypair, blinding)>>

\* The deposited amount is left out of the output.
deposit_outputs_inputs_only(inputs, base_units, keypair, blinding, next_index) ==
    <<Utxo(inputs[1].amount + inputs[2].amount - fee_base_units,
           blinding, keypair, next_index, mint_address),
      Utxo(0, blinding, keypair, next_index + 1, mint_address)>>

\* deposit_spl's outputs: the value-carrying one at next_index and a
\* zero-value one at next_index + 1.
deposit_outputs(inputs, base_units, keypair, blinding, next_index) ==
    <<Utxo(inputs[1].amount + inputs[2].amount + base_units - fee_base_units,
           blinding, keypair, next_index, mint_address),
      Utxo(0, blinding, keypair, next_index + 1, mint_address)>>

\* MerkleTree::zero_path: the all-"0" path of a dummy input.
zero_path == [path_elements |-> <<F(0)>>]

\* utils::fetch_merkle_proof: the indexer's inclusion proof of a commitment.
fetch_merkle_proof(commitment) == [path_elements |-> <<commitment>>]

\* With an existing UTXO a proof is fetched for both inputs.
deposit_paths_all_fetched(existing_utxos, inputs) ==
    IF existing_utxos = <<>>
    THEN <<zero_path, zero_path>>
    ELSE <<fetch_merkle_proof(get_commitment(inputs[1])),
           fetch_merkle_proof(get_commitment(inputs[2]))>>

\* deposit_spl's Merkle paths: none is fetched for a dummy input.
deposit_paths(existing_utxos, inputs) ==
    IF existing_utxos = <<>>
    THEN <<zero_path, zero_path>>
    ELSE <<fetch_merkle_proof(get_commitment(inputs[1])),
           IF ~is_dummy(inputs[2]) THEN fetch_merkle_proof(get_commitment(inputs[2]))
           ELSE zero_path>>

\* Only what belongs to a real UTXO is handed over.
deposit_transaction_without_dummies(inputs, paths, outputs, base_units) ==
    [inputs |-> inputs, outputs |-> outputs,
     input_nullifier |-> IF is_dummy(inputs[1]) THEN <<>>
                         ELSE IF is_dummy(inputs[2]) THEN <<get_nullifier(inputs[1])>>
                         ELSE <<get_nullifier(inputs[1]), get_nullifier(inputs[2])>>,
     output_commitment |-> <<get_commitment(outputs[1])>>,
     in_path_elements |-> paths,
     ext_amount |-> as_i64(base_units),
     public_amount |-> calculate_public_amount(as_i64(base_units), fee_base_units,
                                               FALSE).value]

\* What deposit_spl hands to the prover and, through the proof's public
\* signals, to the relayer: the nullifiers of both inputs, the commitments of
\* both outputs, the public amount; the UTXOs themselves stay private.
deposit_transaction(inputs, paths, outputs, base_units) ==
    [inputs |-> inputs, outputs |-> outputs,
     input_nullifier |-> <<get_nullifier(inputs[1]), get_nullifier(inputs[2])>>,
     output_commitment |-> <<get_commitment(outputs[1]), get_commitment(outputs[2])>>,
     in_path_elements |-> paths,
     ext_amount |-> as_i64(base_units),
     public_amount |-> calculate_public_amount(as_i64(base_units), fee_base_units,
                                               FALSE).value]

\* deposit_spl up to its scan: the tree state is queried, then get_utxos_spl
\* runs without an abort signal.
DepositSplCall ==
    /\ op.kind = "none"
    /\ asset = "SPL"
    /\ Len(log) + 2 <= MaxLog
    /\ \E base_units \in 1..MaxDeposit :
         op' = [IdleOp EXCEPT !.kind = "deposit_spl", !.call = "deposit_spl",
                              !.base_units = base_units,
                              !.next_index = Len(log), !.net_calls = 1]
    /\ scan' = scan_begin(FALSE)
    /\ UNCHANGED <<libVars, tree, last, asset, log, nullifier_accounts, storage, abort_signal, found,
                   after_deposit>>

\* The scan returned Ok: inputs and outputs are built, the proof is made, the
\* transaction is relayed and the ledger confirms it: both encrypted outputs
\* are appended and each nullifier handed over gets its account.
DepositSplFinish ==
    /\ op.kind = "deposit_spl"
    /\ scan.pc = "returned"
    /\ Unwrap(scan.result).ok
    /\ \E blinding \in Blindings :
         LET keypair == ZkKeypair(utxo_private_key(Me))
             existing_utxos == Unwrap(scan.result).value
             inputs == deposit_inputs(existing_utxos, keypair, blinding)
             outputs == deposit_outputs(inputs, op.base_units, keypair, blinding,
                                        op.next_index)
             paths == deposit_paths(existing_utxos, inputs)
             tx == deposit_transaction(inputs, paths, outputs, op.base_units)
             prefix == <<"nullifier0", "nullifier1">>
         IN  /\ log' = log \o <<encrypt_utxo(Me, Len(log) + 1, outputs[1]),
                                encrypt_utxo(Me, Len(log) + 2, outputs[2])>>
             /\ nullifier_accounts' = nullifier_accounts \cup
                    {<<prefix[i], tx.input_nullifier[i]>> :
                        i \in 1..Len(tx.input_nullifier)}
             /\ after_deposit' = Some([base_units |-> op.base_units,
                                       from_empty |-> existing_utxos = <<>>])
             /\ op' = [op EXCEPT !.kind = "done", !.result = Some(Ok("signature")),
                                 !.tx = Some(tx)]
    /\ scan' = IdleScan
    /\ UNCHANGED <<libVars, tree, last, asset, storage, abort_signal, found>>

\* The scan, the prover, the relayer or the confirmation wait failed: the
\* operation returns the error and the ledger is as it was.
DepositSplFail ==
    /\ op.kind = "deposit_spl"
    /\ scan.pc = "returned"
    /\ op' = [op EXCEPT !.kind = "done",
                        !.result = IF Unwrap(scan.result).ok THEN Some(Err("ApiError"))
                                   ELSE scan.result]
    /\ scan' = IdleScan
    /\ after_deposit' = None
    /\ UNCHANGED <<libVars, tree, last, asset, log, nullifier_accounts, storage, abort_signal, found>>

(* ----------------------- deposit_spl, step by step ---------------------- *)

\* wait_for_spl_confirmation's max_retries.
max_retries == 10

\* The fee-currency balance deposit_spl asks for (0.002 SOL, in lamports).
SOL_FOR_FEES == 2000000

\* constants::find_token_by_mint: the supported token of a mint, if any.
find_token_by_mint(mint) ==
    IF mint = USDC_MINT THEN Some([name |-> "usdc"]) ELSE None

\* Mints a caller may hand in.
DepositMints == {USDC_MINT, "So11111111111111111111111111111111111111112"}

\* Balances the RPC node may report for the token account and for the wallet.
TokenBalances == {0, 1, U64_MAX}

SolBalances == {0, SOL_FOR_FEES - 1, SOL_FOR_FEES}

\* next_index values the relayer may report for the tree.
TreeNextIndexes == {0, 2}

\* What GET /utxos/check may come back as.
CheckResponses == {"exists", "absent", "failed", "unparsable"}

\* Lists get_utxos_spl may return: non-zero UTXOs of the caller and the mint.
ExistingUtxoLists ==
    UNION {[1..n -> {Utxo(amount, 7, ZkKeypair(utxo_private_key(Me)), 0, USDC_MINT) :
                        amount \in {1, 2}}] : n \in 0..MaxList}

ApiError == Err([kind |-> "ApiError"])

SolanaClientError == Err([kind |-> "SolanaClientError"])

IdleDeposit ==
    [pc |-> "idle", base_units |-> 0, mint |-> "", overflow_checks |-> FALSE,
     next_index |-> 0, existing_utxos |-> <<>>, tx |-> None, retries |-> 0,
     result |-> None, relayer_requests |-> 0, scans |-> 0, prover_calls |-> 0,
     proofs |-> 0, submissions |-> 0, accepted |-> 0, sleeps |-> 0, checks |-> 0,
     last_response |-> "", token_balance |-> None, sol_balance |-> None,
     proved |-> None]

\* deposit_spl returns.
deposit_return(d, result) == [d EXCEPT !.pc = "returned", !.result = Some(result)]

\* The balance must exceed what is needed.
token_balance_check_strict(token, balance, base_units) ==
    IF balance <= base_units + fee_base_units
    THEN Err([kind |-> "InsufficientTokenBalance", token |-> token.name,
              have |-> balance, need |-> base_units + fee_base_units])
    ELSE Ok(balance)

\* deposit_spl's check of the SPL balance.
token_balance_check(token, balance, base_units) ==
    IF balance < base_units + fee_base_units
    THEN Err([kind |-> "InsufficientTokenBalance", token |-> token.name,
              have |-> balance, need |-> base_units + fee_base_units])
    ELSE Ok(balance)

\* deposit_spl's check of the SOL balance.
sol_balance_check(sol_balance) ==
    IF sol_balance < SOL_FOR_FEES
    THEN Err([kind |-> "InsufficientBalance", have |-> sol_balance, need |-> SOL_FOR_FEES])
    ELSE Ok(sol_balance)

\* deposit_spl is called: the token is looked up.
DepositCall ==
    /\ dep.pc = "idle"
    /\ \E base_units \in 0..U64_MAX, mint \in DepositMints, overflow_checks \in BOOLEAN :
         LET d == [IdleDeposit EXCEPT !.base_units = base_units, !.mint = mint,
                                      !.overflow_checks = overflow_checks]
         IN  dep' = IF find_token_by_mint(mint) = None
                    THEN deposit_return(d, Err([kind |-> "TokenNotSupported", mint |-> mint]))
                    ELSE [d EXCEPT !.pc = "token_balance"]
    /\ UNCHANGED <<service, wire, call, tree, last, clientVars>>

\* connection.get_token_account_balance answers, or fails.
DepositTokenBalance ==
    /\ dep.pc = "token_balance"
    /\ \/ dep' = deposit_return(dep, SolanaClientError)
       \/ \E balance \in TokenBalances :
            LET checked == token_balance_check(Unwrap(find_token_by_mint(dep.mint)),
                                               balance, dep.base_units)
                d == [dep EXCEPT !.token_balance = Some(balance)]
            IN  dep' = IF checked.ok THEN [d EXCEPT !.pc = "sol_balance"]
                       ELSE deposit_return(d, checked)
    /\ UNCHANGED <<service, wire, call, tree, last, clientVars>>

\* connection.get_balance answers, or fails.
DepositSolBalance ==
    /\ dep.pc = "sol_balance"
    /\ \/ dep' = deposit_return(dep, SolanaClientError)
       \/ \E sol_balance \in SolBalances :
            LET checked == sol_balance_check(sol_balance)
                d == [dep EXCEPT !.sol_balance = Some(sol_balance)]
            IN  dep' = IF checked.ok THEN [d EXCEPT !.pc = "tree_state"]
                       ELSE deposit_return(d, checked)
    /\ UNCHANGED <<service, wire, call, tree, last, clientVars>>

\* query_remote_tree_state: the first request to the relayer.
DepositTreeState ==
    /\ dep.pc = "tree_state"
    /\ \/ dep' = deposit_return([dep EXCEPT !.relayer_requests = @ + 1], ApiError)
       \/ \E index \in TreeNextIndexes :
            dep' = [dep EXCEPT !.pc = "scan", !.next_index = index,
                               !.relayer_requests = @ + 1]
    /\ UNCHANGED <<service, wire, call, tree, last, clientVars>>

\* get_utxos_spl runs and returns the existing UTXOs, or its error.
DepositScan ==
    /\ dep.pc = "scan"
    /\ \/ dep' = deposit_return([dep EXCEPT !.scans = @ + 1], ApiError)
       \/ \E existing_utxos \in ExistingUtxoLists :
            dep' = [dep EXCEPT !.pc = "select", !.scans = @ + 1,
                               !.existing_utxos =
                                   [k \in 1..Len(existing_utxos) |->
                                       [existing_utxos[k] EXCEPT !.index = k - 1]]]
    /\ UNCHANGED <<service, wire, call, tree, last, clientVars>>

\* deposit_spl's ext_amount = base_units as i64 and its public amount.
circuit_amounts(base_units, overflow_checks) ==
    [ext_amount |-> as_i64(base_units),
     public_amount |-> calculate_public_amount(as_i64(base_units), fee_base_units,
                                               overflow_checks)]

\* The number of inclusion proofs deposit_spl fetches for its inputs.
proofs_fetched(existing_utxos, inputs) ==
    IF existing_utxos = <<>> THEN 0
    ELSE IF is_dummy(inputs[2]) THEN 1 ELSE 2

\* Inputs are selected, their proofs fetched, the outputs and the circuit
\* input built.
DepositSelect ==
    /\ dep.pc = "select"
    /\ \E blinding \in Blindings :
         LET keypair == ZkKeypair(utxo_private_key(Me))
             inputs == deposit_inputs(dep.existing_utxos, keypair, blinding)
             paths == deposit_paths(dep.existing_utxos, inputs)
             outputs == deposit_outputs(inputs, dep.base_units, keypair, blinding,
                                        dep.next_index)
             amounts == circuit_amounts(dep.base_units, dep.overflow_checks)
             fetched == proofs_fetched(dep.existing_utxos, inputs)
             d == [dep EXCEPT !.relayer_requests = @ + fetched, !.proofs = fetched]
         IN  \/ /\ fetched > 0
                /\ dep' = deposit_return(d, ApiError)
             \/ dep' = IF amounts.public_amount.ok
                       THEN [d EXCEPT !.pc = "prove",
                                      !.tx = Some([deposit_transaction(inputs, paths, outputs,
                                                                       dep.base_units)
                                                   EXCEPT !.ext_amount = amounts.ext_amount,
                                                          !.public_amount =
                                                              amounts.public_amount.value])]
                       ELSE deposit_return(d, amounts.public_amount)
    /\ UNCHANGED <<service, wire, call, tree, last, clientVars>>

\* A failed proof is passed over and the transaction goes out.
prove_outcome_ignored(d, proved) ==
    [d EXCEPT !.pc = "submit", !.prover_calls = @ + 1, !.proved = Some(proved)]

\* prover.prove(&circuit_input).await?
prove_outcome(d, proved) ==
    IF proved
    THEN [d EXCEPT !.pc = "submit", !.prover_calls = @ + 1, !.proved = Some(proved)]
    ELSE deposit_return([d EXCEPT !.prover_calls = @ + 1, !.proved = Some(proved)],
                        Err([kind |-> "ProofError"]))

\* The prover answers.
DepositProve ==
    /\ dep.pc = "prove"
    /\ \E proved \in BOOLEAN : dep' = prove_outcome(dep, proved)
    /\ UNCHANGED <<service, wire, call, tree, last, clientVars>>

\* relay_spl_deposit_to_indexer(...).await?
relay_outcome(d, success) ==
    IF success
    THEN [d EXCEPT !.pc = "sleep", !.submissions = @ + 1, !.accepted = @ + 1,
                   !.relayer_requests = @ + 1]
    ELSE deposit_return([d EXCEPT !.submissions = @ + 1, !.relayer_requests = @ + 1],
                        ApiError)

\* The relayer answers the submission.
DepositRelay ==
    /\ dep.pc = "submit"
    /\ \E success \in BOOLEAN : dep' = relay_outcome(dep, success)
    /\ UNCHANGED <<service, wire, call, tree, last, clientVars>>

\* The loop gives up one check later.
confirmation_check_one_more(d, response) ==
    LET checked == [d EXCEPT !.checks = @ + 1, !.relayer_requests = @ + 1,
                             !.last_response = response]
    IN  IF response = "exists"
        THEN deposit_return(checked, Ok("signature"))
        ELSE IF d.retries + 1 > max_retries
             THEN deposit_return([checked EXCEPT !.retries = @ + 1],
                                 Err([kind |-> "ConfirmationTimeout",
                                      retries |-> d.retries + 1]))
             ELSE [checked EXCEPT !.pc = "sleep", !.retries = @ + 1]

\* One pass of wait_for_spl_confirmation's loop after its sleep: the check,
\* the count, the exit.
confirmation_check(d, response) ==
    LET checked == [d EXCEPT !.checks = @ + 1, !.relayer_requests = @ + 1,
                             !.last_response = response]
    IN  IF response = "exists"
        THEN deposit_return(checked, Ok("signature"))
        ELSE IF d.retries + 1 >= max_retries
             THEN deposit_return([checked EXCEPT !.retries = @ + 1],
                                 Err([kind |-> "ConfirmationTimeout",
                                      retries |-> d.retries + 1]))
             ELSE [checked EXCEPT !.pc = "sleep", !.retries = @ + 1]

\* tokio::time::sleep(2 s) ends.
ConfirmSleep ==
    /\ dep.pc = "sleep"
    /\ dep' = [dep EXCEPT !.pc = "check", !.sleeps = @ + 1]
    /\ UNCHANGED <<service, wire, call, tree, last, clientVars>>

\* The existence check comes back.
ConfirmCheck ==
    /\ dep.pc = "check"
    /\ \E response \in CheckResponses : dep' = confirmation_check(dep, response)
    /\ UNCHANGED <<service, wire, call, tree, last, clientVars>>

\* The caller takes the result.
DepositReturn ==
    /\ dep.pc = "returned"
    /\ dep' = IdleDeposit
    /\ UNCHANGED <<service, wire, call, tree, last, clientVars>>

(* ----------------------------- environment ----------------------------- *)

\* Somebody's transaction appends an encrypted output to the log.
EnvAppend ==
    /\ op.kind = "none"
    /\ Len(log) < MaxLog
    /\ \E owner \in Wallets, amount \in 0..MaxAmount, blinding \in Blindings :
         /\ owner = Other => amount = 1
         /\ log' = Append(log,
                encrypt_utxo(owner, Len(log) + 1,
                    Utxo(amount, blinding, ZkKeypair(utxo_private_key(owner)),
                         Len(log), mint_address)))
    /\ after_deposit' = None
    /\ UNCHANGED <<libVars, tree, last, asset, nullifier_accounts, storage, abort_signal, scan, op, found>>

\* A transaction spends one of the caller's outputs: the ledger creates the
\* nullifier account under the seed prefix of the input slot it was spent in.
EnvSpend ==
    /\ op.kind = "none"
    /\ \E i \in 1..Len(log), prefix \in {"nullifier0", "nullifier1"} :
         LET nullifier == get_nullifier(owner_utxo(log[i]))
         IN  /\ log[i].key = Me
             /\ log[i].amount > 0
             /\ ~account_exists("nullifier0", nullifier)
             /\ ~account_exists("nullifier1", nullifier)
             /\ nullifier_accounts' = nullifier_accounts \cup {<<prefix, nullifier>>}
    /\ after_deposit' = None
    /\ UNCHANGED <<libVars, tree, last, asset, log, storage, abort_signal, scan, op, found>>

\* The caller sets the abort flag at any moment of a run that was handed it.
SetAbort ==
    /\ ~abort_signal
    /\ scan.abortable
    /\ scan.pc \in {"loop", "fetch", "classify"}
    /\ abort_signal' = TRUE
    /\ UNCHANGED <<libVars, tree, last, asset, log, nullifier_accounts, storage, scan, op, found,
                   after_deposit>>

(* ----------------------------- Merkle tree ----------------------------- *)

DEFAULT_ZERO == F(0)

MerkleProofError(msg) == Err([kind |-> "MerkleProofError", msg |-> msg])

\* vec[index] of a Vec held as a sequence.
At(vec, index) == vec[index + 1]

\* A Vec built entry by entry, held as a finished sequence.
Vec(entries) == entries \o <<>>

\* while vec.len() <= index { vec.push(fill) }; vec[index] = value.
SetAt(vec, index, value, fill) ==
    Vec([k \in 1..Max(Len(vec), index + 1) |->
            IF k = index + 1 THEN value
            ELSE IF k <= Len(vec) THEN vec[k] ELSE fill])

\* The zeros vector of with_elements: zeros[0] = zero_element,
\* zeros[i] = Hash(zeros[i-1], zeros[i-1]).
RECURSIVE zeros_upto(_, _)
zeros_upto(zero_element, levels) ==
    IF levels = 0 THEN <<zero_element>>
    ELSE LET z == zeros_upto(zero_element, levels - 1)
         IN  Append(z, poseidon_hash_strings(<<z[levels], z[levels]>>))

\* The pair of prev_layer that becomes entry i of the layer above: the odd
\* one out is paired with the level's zero.
rebuild_pair(prev_layer, zero_element, i) ==
    <<prev_layer[2 * i - 1],
      IF 2 * i <= Len(prev_layer) THEN prev_layer[2 * i] ELSE zero_element>>

\* A leaf without a partner is left out of the layer above.
rebuild_layer_drop_odd(prev_layer, zero_element) ==
    LET num_pairs == Len(prev_layer) \div 2
        failing == {i \in 1..num_pairs :
                       ~try_poseidon_hash_strings(
                            rebuild_pair(prev_layer, zero_element, i)).ok}
        done == IF failing = {} THEN num_pairs
                ELSE (CHOOSE i \in failing : \A j \in failing : i <= j) - 1
    IN  [layer |-> Vec([i \in 1..done |->
                      poseidon_hash_strings(rebuild_pair(prev_layer, zero_element, i))]),
         result |-> IF failing = {} THEN Ok(<<>>)
                    ELSE try_poseidon_hash_strings(
                             rebuild_pair(prev_layer, zero_element, done + 1))]

\* One level of MerkleTree::rebuild: the layer is cleared and the hashes of
\* the pairs are pushed one by one; the first pair that does not hash ends
\* the call with the layer holding the pairs before it.
rebuild_layer(prev_layer, zero_element) ==
    LET num_pairs == (Len(prev_layer) + 1) \div 2
        failing == {i \in 1..num_pairs :
                       ~try_poseidon_hash_strings(
                            rebuild_pair(prev_layer, zero_element, i)).ok}
        done == IF failing = {} THEN num_pairs
                ELSE (CHOOSE i \in failing : \A j \in failing : i <= j) - 1
    IN  [layer |-> Vec([i \in 1..done |->
                      poseidon_hash_strings(rebuild_pair(prev_layer, zero_element, i))]),
         result |-> IF failing = {} THEN Ok(<<>>)
                    ELSE try_poseidon_hash_strings(
                             rebuild_pair(prev_layer, zero_element, done + 1))]

\* MerkleTree::rebuild: every layer above the leaves, bottom up, until a
\* level fails; the layers as the call leaves them and its result.
RECURSIVE rebuild_from(_, _, _)
rebuild_from(t, layers, level) ==
    IF level > t.levels THEN [layers |-> layers, result |-> Ok(<<>>)]
    ELSE LET r == rebuild_layer(layers[level], t.zeros[level])
             rebuilt == [layers EXCEPT ![level + 1] = r.layer]
         IN  IF r.result.ok THEN rebuild_from(t, rebuilt, level + 1)
             ELSE [layers |-> rebuilt, result |-> r.result]

\* The tree MerkleTree::rebuild leaves behind.
rebuild(t) == [t EXCEPT !.layers = rebuild_from(t, t.layers, 1).layers]

\* MerkleTree::with_elements.
with_elements(levels, elements, zero_element) ==
    LET t == [levels |-> levels, capacity |-> 2 ^ levels,
              zero_element |-> zero_element,
              zeros |-> zeros_upto(zero_element, levels),
              layers |-> [l \in 1..(levels + 1) |->
                             IF l = 1 THEN elements ELSE <<>>]]
    IN  IF Len(elements) > 2 ^ levels
        THEN MerkleProofError("Tree is full")
        ELSE IF rebuild_from(t, t.layers, 1).result.ok THEN Ok(rebuild(t))
        ELSE rebuild_from(t, t.layers, 1).result

\* MerkleTree::new.
MerkleTree_new(levels) == with_elements(levels, <<>>, DEFAULT_ZERO).value

\* MerkleTree::root.
root(t) ==
    IF t.layers[t.levels + 1] = <<>> THEN t.zeros[t.levels + 1]
    ELSE At(t.layers[t.levels + 1], 0)

\* MerkleTree::next_index.
next_index(t) == Len(t.layers[1])

\* MerkleTree::elements.
elements(t) == t.layers[1]

\* The right sibling is never read: the level's zero stands in for it.
RECURSIVE update_from_zero_right(_, _, _, _)
update_from_zero_right(t, layers, level, index) ==
    IF level > t.levels THEN [layers |-> layers, result |-> Ok(<<>>)]
    ELSE LET idx == index \div 2
             prev_layer == layers[level]
             left == IF idx * 2 < Len(prev_layer) THEN At(prev_layer, idx * 2)
                     ELSE t.zeros[level]
             hash == try_poseidon_hash_strings(<<left, t.zeros[level]>>)
         IN  IF ~hash.ok THEN [layers |-> layers, result |-> hash]
             ELSE update_from_zero_right(t,
                      [layers EXCEPT ![level + 1] =
                           SetAt(@, idx, hash.value, t.zeros[level + 1])],
                      level + 1, idx)

\* The loop of MerkleTree::update over the levels above the leaves.
\* It stops at the first hash that fails, with the layers written so far.
RECURSIVE update_from(_, _, _, _)
update_from(t, layers, level, index) ==
    IF level > t.levels THEN [layers |-> layers, result |-> Ok(<<>>)]
    ELSE LET idx == index \div 2
             prev_layer == layers[level]
             left == IF idx * 2 < Len(prev_layer) THEN At(prev_layer, idx * 2)
                     ELSE t.zeros[level]
             right == IF idx * 2 + 1 < Len(prev_layer) THEN At(prev_layer, idx * 2 + 1)
                      ELSE t.zeros[level]
             hash == try_poseidon_hash_strings(<<left, right>>)
         IN  IF ~hash.ok THEN [layers |-> layers, result |-> hash]
             ELSE update_from(t,
                      [layers EXCEPT ![level + 1] =
                           SetAt(@, idx, hash.value, t.zeros[level + 1])],
                      level + 1, idx)

\* The leaves extended and the element stored, then the path to the root.
update_steps(t, index, element) ==
    update_from(t, [t.layers EXCEPT ![1] = SetAt(@, index, element, t.zero_element)],
                1, index)

\* MerkleTree::update: Ok with the new tree, the out-of-bounds error, or the
\* error of the hash that failed.
update(t, index, element) ==
    LET steps == update_steps(t, index, element)
    IN  IF index >= t.capacity
        THEN MerkleProofError("Index out of bounds")
        ELSE IF steps.result.ok THEN Ok([t EXCEPT !.layers = steps.layers])
        ELSE steps.result

\* The tree a call of MerkleTree::update leaves behind, whatever it returns.
after_update(t, index, element) ==
    IF index >= t.capacity THEN t
    ELSE [t EXCEPT !.layers = update_steps(t, index, element).layers]

\* The capacity check lets one insert too many through to update.
insert_off_by_one(t, element) ==
    IF Len(t.layers[1]) > t.capacity
    THEN MerkleProofError("Tree is full")
    ELSE update(t, Len(t.layers[1]), element)

\* MerkleTree::insert.
insert(t, element) ==
    IF Len(t.layers[1]) >= t.capacity
    THEN MerkleProofError("Tree is full")
    ELSE update(t, Len(t.layers[1]), element)

\* The tree a call of MerkleTree::insert leaves behind, whatever it returns.
after_insert(t, element) ==
    IF Len(t.layers[1]) >= t.capacity THEN t
    ELSE after_update(t, Len(t.layers[1]), element)

\* MerkleTree::bulk_insert: the capacity check, then the leaves are appended
\* and every upper layer is rebuilt.
bulk_insert(t, new_elements) ==
    LET extended == [t EXCEPT !.layers[1] = @ \o new_elements]
        rebuilt == rebuild_from(extended, extended.layers, 1)
    IN  IF Len(t.layers[1]) + Len(new_elements) > t.capacity
        THEN MerkleProofError("Tree is full")
        ELSE IF rebuilt.result.ok THEN Ok([extended EXCEPT !.layers = rebuilt.layers])
        ELSE rebuilt.result

\* The tree a call of MerkleTree::bulk_insert leaves behind.
after_bulk_insert(t, new_elements) ==
    IF Len(t.layers[1]) + Len(new_elements) > t.capacity THEN t
    ELSE rebuild([t EXCEPT !.layers[1] = @ \o new_elements])

\* The sibling is taken to the right of every node, also of a right child.
path_sibling_right(t, index) ==
    IF index >= Len(t.layers[1])
    THEN MerkleProofError("Index out of bounds")
    ELSE Ok([path_elements |->
                [l \in 1..t.levels |->
                    LET current_index == index \div (2 ^ (l - 1))
                        sibling_index == current_index + 1
                    IN  IF sibling_index < Len(t.layers[l])
                        THEN At(t.layers[l], sibling_index)
                        ELSE t.zeros[l]],
             path_indices |->
                [l \in 1..t.levels |-> (index \div (2 ^ (l - 1))) % 2]])

\* MerkleTree::path: per level the sibling (index ^ 1) or the level's zero,
\* and the bit index % 2.
path(t, index) ==
    IF index >= Len(t.layers[1])
    THEN MerkleProofError("Index out of bounds")
    ELSE Ok([path_elements |->
                [l \in 1..t.levels |->
                    LET current_index == index \div (2 ^ (l - 1))
                        sibling_index == IF current_index % 2 = 0 THEN current_index + 1
                                         ELSE current_index - 1
                    IN  IF sibling_index < Len(t.layers[l])
                        THEN At(t.layers[l], sibling_index)
                        ELSE t.zeros[l]],
             path_indices |->
                [l \in 1..t.levels |-> (index \div (2 ^ (l - 1))) % 2]])

\* The fold of MerklePath::verify over path_elements.iter().zip(path_indices).
RECURSIVE verify_from(_, _, _)
verify_from(p, k, current) ==
    IF k > Min(Len(p.path_elements), Len(p.path_indices)) THEN current
    ELSE verify_from(p, k + 1,
             IF p.path_indices[k] = 0
             THEN poseidon_hash_strings(<<current, p.path_elements[k]>>)
             ELSE poseidon_hash_strings(<<p.path_elements[k], current>>))

\* MerklePath::verify.
verify(p, leaf, expected_root) == verify_from(p, 1, leaf) = expected_root

\* Leaves handed to the tree: the zero element and a number.
LeafValues == {F(0), F(1)}

\* Values a sibling of a path may be replaced by: leaves, another number and
\* the digest that is the zero of level 1.
TamperValues == LeafValues \cup {F(2), poseidon_hash_strings(<<F(0), F(0)>>)}

\* tree.insert(element).
TreeInsert ==
    /\ \E element \in LeafValues :
         LET r == insert(tree, element)
         IN  /\ tree' = IF r.ok THEN r.value ELSE tree
             /\ last' = [op |-> "insert", element |-> element,
                         old_len |-> Len(tree.layers[1]), result |-> r]
    /\ UNCHANGED <<libVars, clientVars>>

\* tree.path(index), also past the last leaf.
TreePath ==
    /\ \E index \in 0..tree.capacity :
         last' = [op |-> "path", index |-> index, result |-> path(tree, index)]
    /\ UNCHANGED <<libVars, tree, clientVars>>

\* path.verify(leaf, tree.root()) with any leaf, on the path tree.path
\* returned or on that path with one sibling replaced.
TreeVerify ==
    /\ last.op = "path"
    /\ last.result.ok
    /\ \E leaf \in LeafValues, level \in 0..tree.levels, value \in TamperValues :
         LET p == last.result.value
             used == IF level = 0 THEN p
                     ELSE [p EXCEPT !.path_elements[level] = value]
         IN  last' = [op |-> "verify", index |-> last.index, leaf |-> leaf,
                      path |-> used,
                      result |-> verify(used, leaf, root(tree))]
    /\ UNCHANGED <<libVars, tree, clientVars>>

\* Leaves handed to a tree whose calls may fail: a number and a string that
\* is not one.
OpLeaves == {F(1), NotDecimal}

\* The lists handed to bulk_insert: up to MaxBulk leaves.
BulkLists == UNION {[1..n -> OpLeaves] : n \in 0..MaxBulk}

\* What the tree's caller remembers of a call: the tree before it, what was
\* passed, the result, and whether every mutating call so far returned Ok.
\* The caller makes no further call on a tree after one returned an error.
TreeCall(fn, arg, result) ==
    [op |-> fn, arg |-> arg, before |-> tree, result |-> result,
     was_clean |-> last.clean,
     clean |-> last.clean /\ (result.ok \/ fn = "path")]

\* tree.insert(element) with any leaf.
TreeOpInsert ==
    /\ last.clean
    /\ \E element \in OpLeaves :
         /\ tree' = after_insert(tree, element)
         /\ last' = TreeCall("insert", element, insert(tree, element))
    /\ UNCHANGED <<libVars, clientVars>>

\* tree.update(index, element) with any index up to the capacity.
TreeOpUpdate ==
    /\ last.clean
    /\ \E index \in 0..tree.capacity, element \in OpLeaves :
         /\ tree' = after_update(tree, index, element)
         /\ last' = TreeCall("update", <<index, element>>, update(tree, index, element))
    /\ UNCHANGED <<libVars, clientVars>>

\* tree.bulk_insert(elements).
TreeOpBulkInsert ==
    /\ last.clean
    /\ \E new_elements \in BulkLists :
         /\ tree' = after_bulk_insert(tree, new_elements)
         /\ last' = TreeCall("bulk_insert", new_elements, bulk_insert(tree, new_elements))
    /\ UNCHANGED <<libVars, clientVars>>

\* tree.path(index), which takes &self.
TreeOpPath ==
    /\ last.clean
    /\ \E index \in 0..tree.capacity :
         last' = TreeCall("path", index, path(tree, index))
    /\ UNCHANGED <<libVars, tree, clientVars>>

(* ------------------------- storage backends ---------------------------- *)

\* Keys handed to a Storage: a plain one, one with a character key_path
\* replaces, and the name that one is replaced by.
StorageKeys == {"k", "a:b", "a_b"}

StorageValues == {"1", "2"}

\* FileStorage::key_path: the characters / \ : * ? " < > | become _.
key_path(key) == IF key = "a:b" THEN "a_b" ELSE key

\* The names files of the cache directory can have.
FileNames == {key_path(k) : k \in StorageKeys}

\* A HashMap<String, String> without entries, as a map to Option<String>.
EmptyMap == [k \in StorageKeys |-> None]

\* A cache directory without files.
EmptyDir == [n \in FileNames |-> None]

\* FileStorage::load_cache: every file of the directory becomes an entry
\* under its file name.
load_cache(disk) ==
    [k \in StorageKeys |-> IF k \in FileNames THEN disk[k] ELSE None]

\* FileStorage::new over a cache directory.
FileStorage_new(disk) == [cache |-> load_cache(disk), disk |-> disk]

\* MemoryStorage::new.
MemoryStorage_new == [data |-> EmptyMap]

\* get reads the file of the key, not the map.
file_get_from_disk(fs, key) == fs.disk[key_path(key)]

\* FileStorage::get: the entry of the in-memory map.
file_get(fs, key) == fs.cache[key]

\* FileStorage::set: the map entry, then the file (an error of fs::write is
\* ignored).
file_set(fs, key, value, io_ok) ==
    [cache |-> [fs.cache EXCEPT ![key] = Some(value)],
     disk |-> IF io_ok THEN [fs.disk EXCEPT ![key_path(key)] = Some(value)] ELSE fs.disk]

\* FileStorage::remove: the map entry, then the file.
file_remove(fs, key, io_ok) ==
    [cache |-> [fs.cache EXCEPT ![key] = None],
     disk |-> IF io_ok THEN [fs.disk EXCEPT ![key_path(key)] = None] ELSE fs.disk]

\* FileStorage::clear: the map, then the directory is removed and recreated.
file_clear(fs, io_ok) ==
    [cache |-> EmptyMap, disk |-> IF io_ok THEN EmptyDir ELSE fs.disk]

\* MemoryStorage::get / set / remove / clear.
memory_get(ms, key) == ms.data[key]

memory_set(ms, key, value) == [data |-> [ms.data EXCEPT ![key] = Some(value)]]

memory_remove(ms, key) == [data |-> [ms.data EXCEPT ![key] = None]]

memory_clear(ms) == [data |-> EmptyMap]

\* The cache directories a FileStorage is opened over: none or an empty one,
\* or one holding a file of an earlier process.
CacheDirs ==
    {EmptyDir} \cup {[EmptyDir EXCEPT ![n] = Some(v)] : n \in FileNames, v \in StorageValues}

\* The same call is made on a file-backed and on a memory-backed Storage;
\* `latest` is the value of the latest set of each key that no remove of the
\* key and no clear followed, `opened_over` the directory the file-backed
\* one was opened over.
StorageSet ==
    /\ \E key \in StorageKeys, value \in StorageValues, io_ok \in BOOLEAN :
         /\ storage' = [storage EXCEPT
                           !.file = file_set(@, key, value, io_ok),
                           !.memory = memory_set(@, key, value),
                           !.latest[key] = Some(value)]
         /\ call' = [fn |-> "set", key |-> key, value |-> value]
    /\ UNCHANGED <<service, wire, dep, tree, last, asset, log, nullifier_accounts,
                   abort_signal, scan, op, found, after_deposit>>

StorageRemove ==
    /\ \E key \in StorageKeys, io_ok \in BOOLEAN :
         /\ storage' = [storage EXCEPT
                           !.file = file_remove(@, key, io_ok),
                           !.memory = memory_remove(@, key),
                           !.latest[key] = None]
         /\ call' = [fn |-> "remove", key |-> key]
    /\ UNCHANGED <<service, wire, dep, tree, last, asset, log, nullifier_accounts,
                   abort_signal, scan, op, found, after_deposit>>

StorageClear ==
    /\ \E io_ok \in BOOLEAN :
         storage' = [storage EXCEPT
                        !.file = file_clear(@, io_ok),
                        !.memory = memory_clear(@),
                        !.latest = EmptyMap]
    /\ call' = [fn |-> "clear"]
    /\ UNCHANGED <<service, wire, dep, tree, last, asset, log, nullifier_accounts,
                   abort_signal, scan, op, found, after_deposit>>

StorageGet ==
    /\ \E key \in StorageKeys :
         call' = [fn |-> "get", key |-> key,
                  file |-> file_get(storage.file, key),
                  memory |-> memory_get(storage.memory, key)]
    /\ UNCHANGED <<service, wire, dep, tree, last, clientVars>>

(* ------------------------- library calls ------------------------------- *)

\* No library call made yet.
NoCall == [fn |-> "none"]

\* EncryptionService::new: no key is set.
EncryptionService_new ==
    [encryption_key_v1 |-> None, encryption_key_v2 |-> None,
     utxo_private_key_v1 |-> None, utxo_private_key_v2 |-> None]

(* ---- EncryptionService: bytes, keys, V2 (AES-256-GCM), V1 (CTR + HMAC) --- *)

\* A byte of plain data, named by its two hex digits or by its character.
B(c) == [b |-> c]

\* constants of encryption.rs: the 8-byte tag that opens V2 data.
ENCRYPTION_VERSION_V2 ==
    <<B("00"), B("00"), B("00"), B("00"), B("00"), B("00"), B("00"), B("02")>>

\* Length of the random IV of a V2 message.
V2_IV_LEN == 12

\* Length of the authentication tag aes-gcm appends to the ciphertext.
GCM_TAG_LEN == 16

\* Length of the IV of a V1 message.
V1_IV_LEN == 16

\* Length of the truncated HMAC-SHA256 tag of a V1 message.
V1_TAG_LEN == 16

DecryptionError(msg) == Err([kind |-> "DecryptionError", msg |-> msg])

EncryptionError(msg) == Err([kind |-> "EncryptionError", msg |-> msg])

\* keypair.sign_message(SIGN_MESSAGE): ed25519 signatures are deterministic,
\* one signature per wallet.
sign_message(wallet) == [sig |-> wallet]

\* The UTXO private key of the legacy scheme: "0x" + hex(Sha256(key v1)).
utxo_private_key_v1(wallet) == IF wallet = Me THEN F(21) ELSE F(22)

\* EncryptionService::derive_encryption_key_from_signature: the four keys are
\* (over)written from the signature: v1 = signature[..31], v2 =
\* Keccak256(signature), and the two UTXO private keys hashed from them.
derive_encryption_key_from_signature(signature) ==
    [encryption_key_v1 |-> Some([v1 |-> signature]),
     encryption_key_v2 |-> Some([keccak |-> signature]),
     utxo_private_key_v1 |-> Some(utxo_private_key_v1(signature.sig)),
     utxo_private_key_v2 |-> Some(utxo_private_key(signature.sig))]

\* EncryptionService::derive_encryption_key_from_wallet.
derive_encryption_key_from_wallet(wallet) ==
    derive_encryption_key_from_signature(sign_message(wallet))

\* The keys are cleared only in part.
reset_v2_only ==
    [service EXCEPT !.encryption_key_v2 = None, !.utxo_private_key_v2 = None]

\* EncryptionService::reset.
reset == EncryptionService_new

\* rng.fill(&mut iv): a fresh IV of the given length, named by its draw.
random_iv(draw, len) == [j \in 1..len |-> [iv |-> draw, j |-> j]]

\* AES-GCM under (key, nonce): the ciphertext bytes, one per plaintext byte.
gcm_ciphertext(key, nonce, data) ==
    [i \in 1..Len(data) |-> [gcm |-> key, nonce |-> nonce, pos |-> i, plain |-> data[i]]]

\* AES-GCM's tag: determined by the key, the nonce and the whole ciphertext.
gcm_tag(key, nonce, ct) ==
    [j \in 1..GCM_TAG_LEN |-> [tag |-> <<key, nonce, ct>>, j |-> j]]

\* cipher.encrypt(nonce, data): ciphertext followed by the tag.
aes_gcm_encrypt(key, nonce, data) ==
    LET ct == gcm_ciphertext(key, nonce, data)
    IN  ct \o gcm_tag(key, nonce, ct)

\* cipher.decrypt(nonce, ciphertext): the plaintext if the tag verifies.
aes_gcm_decrypt(key, nonce, ciphertext) ==
    IF Len(ciphertext) < GCM_TAG_LEN THEN None
    ELSE LET n   == Len(ciphertext) - GCM_TAG_LEN
             ct  == SubSeq(ciphertext, 1, n)
             tag == SubSeq(ciphertext, n + 1, Len(ciphertext))
         IN  IF tag = gcm_tag(key, nonce, ct)
             THEN Some([i \in 1..n |-> ct[i].plain])
             ELSE None

\* The version tag is left out of the message.
encrypt_without_version(svc, iv, data) ==
    IF ~IsSome(svc.encryption_key_v2)
    THEN EncryptionError("Encryption key not set")
    ELSE Ok(iv \o aes_gcm_encrypt(Unwrap(svc.encryption_key_v2), iv, data))

\* EncryptionService::encrypt: version(8) + IV(12) + ciphertext with tag.
encrypt(svc, iv, data) ==
    IF ~IsSome(svc.encryption_key_v2)
    THEN EncryptionError("Encryption key not set")
    ELSE Ok(ENCRYPTION_VERSION_V2 \o iv
            \o aes_gcm_encrypt(Unwrap(svc.encryption_key_v2), iv, data))

\* EncryptionService::decrypt_v2.
decrypt_v2(svc, encrypted_data) ==
    IF ~IsSome(svc.encryption_key_v2)
    THEN DecryptionError("V2 encryption key not set")
    ELSE IF Len(encrypted_data) < Len(ENCRYPTION_VERSION_V2) + V2_IV_LEN + GCM_TAG_LEN
    THEN DecryptionError("Data too short for V2")
    ELSE LET iv         == SubSeq(encrypted_data, Len(ENCRYPTION_VERSION_V2) + 1,
                                  Len(ENCRYPTION_VERSION_V2) + V2_IV_LEN)
             ciphertext == SubSeq(encrypted_data, Len(ENCRYPTION_VERSION_V2) + V2_IV_LEN + 1,
                                  Len(encrypted_data))
             plain      == aes_gcm_decrypt(Unwrap(svc.encryption_key_v2), iv, ciphertext)
         IN  IF IsSome(plain) THEN Ok(Unwrap(plain))
             ELSE DecryptionError("Invalid key or corrupted data")

\* key[..16] and key[16..31] of the 31-byte V1 key.
cipher_key(key) == [part |-> "0..16", of |-> key]

hmac_key(key) == [part |-> "16..31", of |-> key]

\* Hmac<Sha256> over iv || data, truncated to 16 bytes.
hmac_tag(key, iv, data) ==
    [j \in 1..V1_TAG_LEN |-> [mac |-> <<key, iv \o data>>, j |-> j]]

\* AES-128-CTR apply_keystream at one position: XOR with the keystream byte of
\* (key, iv, position), which undoes itself.
apply_keystream_at(key, iv, i, byte) ==
    IF "ctr" \in DOMAIN byte /\ byte.ctr = key /\ byte.iv = iv /\ byte.pos = i
    THEN byte.plain
    ELSE [ctr |-> key, iv |-> iv, pos |-> i, plain |-> byte]

apply_keystream(key, iv, data) ==
    [i \in 1..Len(data) |-> apply_keystream_at(key, iv, i, data[i])]

\* The legacy writer of V1 data (the format decrypt_v1 reads):
\* iv(16) + HMAC tag(16) + AES-128-CTR ciphertext.
encrypt_v1(key, iv, data) ==
    LET ct == apply_keystream(cipher_key(key), iv, data)
    IN  iv \o hmac_tag(hmac_key(key), iv, ct) \o ct

\* The keystream is applied without checking the tag.
decrypt_v1_unauthenticated(svc, encrypted_data) ==
    IF ~IsSome(svc.encryption_key_v1)
    THEN DecryptionError("V1 encryption key not set")
    ELSE IF Len(encrypted_data) < V1_IV_LEN + V1_TAG_LEN
    THEN DecryptionError("Data too short for V1")
    ELSE LET key  == Unwrap(svc.encryption_key_v1)
             iv   == SubSeq(encrypted_data, 1, V1_IV_LEN)
             data == SubSeq(encrypted_data, V1_IV_LEN + V1_TAG_LEN + 1, Len(encrypted_data))
         IN  Ok(apply_keystream(cipher_key(key), iv, data))

\* EncryptionService::decrypt_v1: the HMAC over iv || data is verified first,
\* the keystream is applied only when it matches.
decrypt_v1(svc, encrypted_data) ==
    IF ~IsSome(svc.encryption_key_v1)
    THEN DecryptionError("V1 encryption key not set")
    ELSE IF Len(encrypted_data) < V1_IV_LEN + V1_TAG_LEN
    THEN DecryptionError("Data too short for V1")
    ELSE LET key      == Unwrap(svc.encryption_key_v1)
             iv       == SubSeq(encrypted_data, 1, V1_IV_LEN)
             auth_tag == SubSeq(encrypted_data, V1_IV_LEN + 1, V1_IV_LEN + V1_TAG_LEN)
             data     == SubSeq(encrypted_data, V1_IV_LEN + V1_TAG_LEN + 1, Len(encrypted_data))
         IN  IF auth_tag # hmac_tag(hmac_key(key), iv, data)
             THEN DecryptionError("Invalid key or corrupted data")
             ELSE Ok(apply_keystream(cipher_key(key), iv, data))

\* Every message is taken for V2.
get_encryption_version_always_v2(encrypted_data) == "V2"

\* EncryptionService::get_encryption_version.
get_encryption_version(encrypted_data) ==
    IF Len(encrypted_data) >= Len(ENCRYPTION_VERSION_V2)
       /\ SubSeq(encrypted_data, 1, Len(ENCRYPTION_VERSION_V2)) = ENCRYPTION_VERSION_V2
    THEN "V2" ELSE "V1"

\* EncryptionService::decrypt: V2 when the data opens with the V2 tag, else V1.
decrypt(svc, encrypted_data) ==
    IF Len(encrypted_data) < Len(ENCRYPTION_VERSION_V2)
    THEN DecryptionError("Data too short")
    ELSE IF SubSeq(encrypted_data, 1, Len(ENCRYPTION_VERSION_V2)) = ENCRYPTION_VERSION_V2
    THEN decrypt_v2(svc, encrypted_data)
    ELSE decrypt_v1(svc, encrypted_data)

(* ------------------ Utxo: the payload that is encrypted ----------------- *)

\* The decimal digits, as the bytes of their characters.
DIGITS == <<B("0"), B("1"), B("2"), B("3"), B("4"), B("5"), B("6"), B("7"), B("8"), B("9")>>

SEPARATOR == B("|")

\* Display for BigUint and u64: the decimal digits, most significant first.
RECURSIVE to_string(_)
to_string(n) ==
    IF n < 10 THEN <<DIGITS[n + 1]>>
    ELSE to_string(n \div 10) \o <<DIGITS[(n % 10) + 1]>>

\* The characters of a mint address (its base58 string, shortened).
mint_chars(mint) ==
    IF mint = SOL_MINT THEN <<B("1"), B("2")>> ELSE <<B("E"), B("P")>>

\* The mint address spelled by a sequence of characters; any string is one.
mint_of_chars(chars) ==
    IF chars = mint_chars(SOL_MINT) THEN SOL_MINT
    ELSE IF chars = mint_chars(USDC_MINT) THEN USDC_MINT
    ELSE "unknown mint"

\* The value of a digit character, -1 for any other byte.
digit_value(byte) ==
    IF \E d \in 1..10 : DIGITS[d] = byte
    THEN (CHOOSE d \in 1..10 : DIGITS[d] = byte) - 1
    ELSE -1

\* BigUint::parse_bytes(_, 10): the number a non-empty string of decimal
\* digits denotes, None for anything else.
RECURSIVE parse_digits(_, _)
parse_digits(chars, acc) ==
    IF chars = <<>> THEN Some(acc)
    ELSE IF digit_value(Head(chars)) < 0 THEN None
    ELSE parse_digits(Tail(chars), acc * 10 + digit_value(Head(chars)))

parse_bytes(chars) == IF chars = <<>> THEN None ELSE parse_digits(chars, 0)

\* str::parse::<u64>: as parse_bytes, and None above u64::MAX.
parse_u64(chars) ==
    LET n == parse_bytes(chars)
    IN  IF IsSome(n) /\ Unwrap(n) <= U64_MAX THEN n ELSE None

\* str::split('|'): the pieces between the separators (always at least one).
RECURSIVE split(_, _)
split(chars, current) ==
    IF chars = <<>> THEN <<current>>
    ELSE IF Head(chars) = SEPARATOR THEN <<current>> \o split(Tail(chars), <<>>)
    ELSE split(Tail(chars), Append(current, Head(chars)))

\* Utxo::serialize_for_encryption: "amount|blinding|index|mint_address".
serialize_for_encryption(utxo) ==
    to_string(utxo.amount) \o <<SEPARATOR>> \o to_string(utxo.blinding) \o <<SEPARATOR>>
        \o to_string(utxo.index) \o <<SEPARATOR>> \o mint_chars(utxo.mint_address)

\* The amount and the blinding are read from each other's field.
deserialize_swapped(data, keypair, version) ==
    LET parts == split(data, <<>>)
    IN  IF Len(parts) # 4 THEN DecryptionError("Invalid UTXO format")
        ELSE IF ~IsSome(parse_bytes(parts[1])) THEN DecryptionError("Invalid amount")
        ELSE IF ~IsSome(parse_bytes(parts[2])) THEN DecryptionError("Invalid blinding")
        ELSE IF ~IsSome(parse_u64(parts[3])) THEN DecryptionError("Invalid index")
        ELSE Ok([amount |-> Unwrap(parse_bytes(parts[2])),
                 blinding |-> Unwrap(parse_bytes(parts[1])),
                 keypair |-> keypair, index |-> Unwrap(parse_u64(parts[3])),
                 mint_address |-> mint_of_chars(parts[4]), version |-> version])

\* Utxo::deserialize_from_encryption.
deserialize_from_encryption(data, keypair, version) ==
    LET parts == split(data, <<>>)
    IN  IF Len(parts) # 4 THEN DecryptionError("Invalid UTXO format")
        ELSE IF ~IsSome(parse_bytes(parts[1])) THEN DecryptionError("Invalid amount")
        ELSE IF ~IsSome(parse_bytes(parts[2])) THEN DecryptionError("Invalid blinding")
        ELSE IF ~IsSome(parse_u64(parts[3])) THEN DecryptionError("Invalid index")
        ELSE Ok([amount |-> Unwrap(parse_bytes(parts[1])),
                 blinding |-> Unwrap(parse_bytes(parts[2])),
                 keypair |-> keypair, index |-> Unwrap(parse_u64(parts[3])),
                 mint_address |-> mint_of_chars(parts[4]), version |-> version])

\* Longest text handed to deserialize_from_encryption ("0|0|0|0" has 7).
MaxText == 7

\* Characters of those texts: a digit, the separator, a letter.
TextBytes == {B("0"), SEPARATOR, B("x")}

Texts == UNION {[1..n -> TextBytes] : n \in 0..MaxText}

\* The UTXOs that are serialized: amounts and blindings of one to three
\* digits, the smallest and the largest index, both mints and versions.
CodecUtxos ==
    {[Utxo(amount, blinding, ZkKeypair(utxo_private_key(Me)), index, mint)
         EXCEPT !.version = version] :
        amount \in {0, 9, 10, 205}, blinding \in {7, 100}, index \in {0, U64_MAX},
        mint \in {SOL_MINT, USDC_MINT}, version \in UtxoVersions}

\* A caller serializes a UTXO and reads it back.
CallSerialize ==
    /\ call = NoCall
    /\ \E utxo \in CodecUtxos :
           /\ call' = [fn |-> "serialize_for_encryption", utxo |-> utxo,
                       data |-> serialize_for_encryption(utxo),
                       result |-> deserialize_from_encryption(serialize_for_encryption(utxo),
                                                              utxo.keypair, utxo.version)]
           /\ UNCHANGED <<service, wire, dep, tree, last, clientVars>>

\* A caller reads a UTXO from a text.
CallDeserialize ==
    /\ call = NoCall
    /\ \E data \in Texts, version \in UtxoVersions :
           /\ call' = [fn |-> "deserialize_from_encryption", data |-> data,
                       result |-> deserialize_from_encryption(
                                      data, ZkKeypair(utxo_private_key(Me)), version)]
           /\ UNCHANGED <<service, wire, dep, tree, last, clientVars>>

\* String::from_utf8 succeeds on the bytes of a text.
valid_utf8(bytes) == \A i \in 1..Len(bytes) : bytes[i] # B("ff")

\* EncryptionService::get_utxo_private_key_with_version.
get_utxo_private_key_with_version(svc, version) ==
    IF version = "V1"
    THEN IF IsSome(svc.utxo_private_key_v1) THEN Ok(Unwrap(svc.utxo_private_key_v1))
         ELSE EncryptionError("V1 UTXO private key not set")
    ELSE IF IsSome(svc.utxo_private_key_v2) THEN Ok(Unwrap(svc.utxo_private_key_v2))
         ELSE EncryptionError("V2 UTXO private key not set")

\* EncryptionService::encrypt_utxo: encrypt(serialize_for_encryption(utxo)).
encrypt_utxo_data(svc, iv, utxo) == encrypt(svc, iv, serialize_for_encryption(utxo))

\* The decrypted UTXO is given position 0.
decrypt_utxo_at_zero(svc, encrypted_data) ==
    LET version   == get_encryption_version(encrypted_data)
        decrypted == decrypt(svc, encrypted_data)
        key       == get_utxo_private_key_with_version(svc, version)
        utxo      == deserialize_from_encryption(decrypted.value, ZkKeypair(key.value), version)
    IN  IF ~decrypted.ok THEN decrypted
        ELSE IF ~valid_utf8(decrypted.value) THEN DecryptionError("Invalid UTF-8")
        ELSE IF ~key.ok THEN key
        ELSE IF ~utxo.ok THEN utxo
        ELSE Ok([utxo.value EXCEPT !.index = 0])

\* EncryptionService::decrypt_utxo: decrypt, read the text as UTF-8, take the
\* UTXO private key of the data's version, deserialize.
decrypt_utxo(svc, encrypted_data) ==
    LET version   == get_encryption_version(encrypted_data)
        decrypted == decrypt(svc, encrypted_data)
        key       == get_utxo_private_key_with_version(svc, version)
    IN  IF ~decrypted.ok THEN decrypted
        ELSE IF ~valid_utf8(decrypted.value) THEN DecryptionError("Invalid UTF-8")
        ELSE IF ~key.ok THEN key
        ELSE deserialize_from_encryption(decrypted.value, ZkKeypair(key.value), version)

\* Longest plain payload handed to encrypt.
MaxPayload == 2

\* Bytes of plain payloads: a character and a byte that is not valid UTF-8.
PlainBytes == {B("0"), B("ff")}

Payloads == UNION {[1..n -> PlainBytes] : n \in 0..MaxPayload}

\* Draws of the random IV.
IvDraws == {1}

\* What an altered position of a message may hold (a byte no message has).
TamperBytes == {B("ee")}

\* A wallet's keys are derived into the service (again, or for the first
\* time), overwriting whatever keys it holds.
Derive ==
    /\ call = NoCall
    /\ \E wallet \in Wallets :
           /\ service' = derive_encryption_key_from_wallet(wallet)
           /\ call' = [fn |-> "derive_encryption_key_from_wallet", wallet |-> wallet,
                       before |-> service]
           /\ UNCHANGED <<wire, dep, tree, last, clientVars>>

\* reset() clears the four keys.
Reset ==
    /\ call = NoCall
    /\ service # EncryptionService_new
    /\ service' = reset
    /\ call' = [fn |-> "reset", before |-> service]
    /\ UNCHANGED <<wire, dep, tree, last, clientVars>>

\* encrypt(data) under a fresh IV; the message, if any, goes on the wire.
Encrypt ==
    /\ call = NoCall
    /\ \E data \in Payloads, draw \in IvDraws :
           LET result == encrypt(service, random_iv(draw, V2_IV_LEN), data)
           IN  /\ call' = [fn |-> "encrypt", data |-> data, before |-> service,
                           result |-> result]
               /\ wire' = IF result.ok
                          THEN Some([data |-> result.value, plain |-> data, key |-> service,
                                     version |-> "V2", tampered |-> FALSE, utxo |-> None])
                          ELSE wire
               /\ UNCHANGED <<service, dep, tree, last, clientVars>>

\* Legacy V1 data written under some wallet's V1 key arrives on the wire.
LegacyV1 ==
    /\ call = NoCall
    /\ \E wallet \in Wallets, data \in Payloads, draw \in IvDraws :
           LET owner == derive_encryption_key_from_wallet(wallet)
           IN  /\ wire' = Some([data |-> encrypt_v1(Unwrap(owner.encryption_key_v1),
                                                    random_iv(draw, V1_IV_LEN), data),
                                plain |-> data, key |-> owner, version |-> "V1",
                                tampered |-> FALSE, utxo |-> None])
               /\ UNCHANGED <<service, call, dep, tree, last, clientVars>>

\* The UTXOs that are encrypted.
CryptoUtxos ==
    {Utxo(10, 7, ZkKeypair(utxo_private_key(Me)), U64_MAX, SOL_MINT),
     Utxo(0, 100, ZkKeypair(utxo_private_key(Other)), 0, USDC_MINT)}

\* encrypt_utxo(utxo) under a fresh IV; the message, if any, goes on the wire.
EncryptUtxo ==
    /\ call = NoCall
    /\ \E utxo \in CryptoUtxos, draw \in IvDraws :
           LET result == encrypt_utxo_data(service, random_iv(draw, V2_IV_LEN), utxo)
           IN  /\ call' = [fn |-> "encrypt_utxo", utxo |-> utxo, before |-> service,
                           result |-> result]
               /\ wire' = IF result.ok
                          THEN Some([data |-> result.value,
                                     plain |-> serialize_for_encryption(utxo), key |-> service,
                                     version |-> "V2", tampered |-> FALSE, utxo |-> Some(utxo)])
                          ELSE wire
               /\ UNCHANGED <<service, dep, tree, last, clientVars>>

\* decrypt_utxo(the message on the wire).
DecryptUtxo ==
    /\ call = NoCall
    /\ IsSome(wire)
    /\ call' = [fn |-> "decrypt_utxo", wire |-> Unwrap(wire), before |-> service,
                result |-> decrypt_utxo(service, Unwrap(wire).data)]
    /\ UNCHANGED <<service, wire, dep, tree, last, clientVars>>

\* One of the key getters: get_utxo_private_key_v1 / _v2 / _with_version.
GetUtxoPrivateKey ==
    /\ call = NoCall
    /\ \E version \in UtxoVersions :
           /\ call' = [fn |-> "get_utxo_private_key_with_version", version |-> version,
                       before |-> service,
                       result |-> get_utxo_private_key_with_version(service, version)]
           /\ UNCHANGED <<service, wire, dep, tree, last, clientVars>>

\* One byte of the message on the wire is altered.
Tamper ==
    /\ call = NoCall
    /\ \E pos \in 1..Len(UnwrapOr(wire, [data |-> <<>>]).data), byte \in TamperBytes :
           /\ IsSome(wire)
           /\ ~Unwrap(wire).tampered
           /\ Unwrap(wire).data[pos] # byte
           /\ wire' = Some([Unwrap(wire) EXCEPT !.data[pos] = byte, !.tampered = TRUE])
           /\ UNCHANGED <<service, call, dep, tree, last, clientVars>>

\* decrypt(the message on the wire).
Decrypt ==
    /\ call = NoCall
    /\ IsSome(wire)
    /\ call' = [fn |-> "decrypt", wire |-> Unwrap(wire), before |-> service,
                result |-> decrypt(service, Unwrap(wire).data)]
    /\ UNCHANGED <<service, wire, dep, tree, last, clientVars>>

\* The IVs of the legacy messages that arrive: a draw of the generator, and
\* the draw whose first 8 bytes are those of the V2 tag.
LegacyIvs ==
    {random_iv(1, V1_IV_LEN),
     ENCRYPTION_VERSION_V2
        \o SubSeq(random_iv(2, V1_IV_LEN), Len(ENCRYPTION_VERSION_V2) + 1, V1_IV_LEN)}

\* A legacy V1 message holding a UTXO of some wallet arrives on the wire.
LegacyV1Utxo ==
    /\ call = NoCall
    /\ \E wallet \in Wallets, utxo \in CryptoUtxos, iv \in LegacyIvs :
           LET owner == derive_encryption_key_from_wallet(wallet)
           IN  wire' = Some([data |-> encrypt_v1(Unwrap(owner.encryption_key_v1), iv,
                                                 serialize_for_encryption(utxo)),
                             plain |-> serialize_for_encryption(utxo), key |-> owner,
                             version |-> "V1", tampered |-> FALSE, utxo |-> Some(utxo)])
    /\ UNCHANGED <<service, call, dep, tree, last, clientVars>>

\* One of the first 8 bytes of the message on the wire is altered.
TamperVersion ==
    /\ call = NoCall
    /\ IsSome(wire)
    /\ ~Unwrap(wire).tampered
    /\ \E pos \in 1..Len(ENCRYPTION_VERSION_V2), byte \in TamperBytes :
           /\ pos <= Len(Unwrap(wire).data)
           /\ wire' = Some([Unwrap(wire) EXCEPT !.data[pos] = byte, !.tampered = TRUE])
    /\ UNCHANGED <<service, call, dep, tree, last, clientVars>>

\* The message on the wire arrives cut short, down to at most 8 bytes.
Truncate ==
    /\ call = NoCall
    /\ IsSome(wire)
    /\ ~Unwrap(wire).tampered
    /\ \E len \in 0..Len(ENCRYPTION_VERSION_V2) :
           wire' = Some([Unwrap(wire) EXCEPT !.data = SubSeq(@, 1, len), !.tampered = TRUE])
    /\ UNCHANGED <<service, call, dep, tree, last, clientVars>>

\* The caller has taken the outcome of its last call and is free to make the
\* next one.
CallReturn ==
    /\ call # NoCall
    /\ call' = NoCall
    /\ UNCHANGED <<service, wire, dep, tree, last, clientVars>>

\* A caller computes a public amount; the build decides the overflow checks.
CallPublicAmount ==
    /\ call = NoCall
    /\ \E ext_amount \in I64_MIN..I64_MAX, fee \in 0..U64_MAX, overflow_checks \in BOOLEAN :
           /\ call' = [fn |-> "calculate_public_amount", ext_amount |-> ext_amount, fee |-> fee,
                       overflow_checks |-> overflow_checks,
                       result |-> calculate_public_amount(ext_amount, fee, overflow_checks)]
           /\ UNCHANGED <<service, wire, dep, tree, last, clientVars>>

\* Amounts of the UTXOs handed to the library: zero (a dummy), small ones, the
\* largest u64 and the first BigUint beyond it.
LibAmounts == {0, 1, 2, U64_MAX, U64_MAX + 1}

\* A caller sums the amounts of a list of UTXOs (of one owner and one mint:
\* only the amounts reach the sum).
CallBalance ==
    /\ call = NoCall
    /\ \E n \in 0..MaxList, overflow_checks \in BOOLEAN :
           \E amounts \in [1..n -> LibAmounts] :
               LET utxos == [i \in 1..n |->
                                Utxo(amounts[i], 7, ZkKeypair(utxo_private_key(Me)), i - 1, SOL_MINT)]
               IN  /\ call' = [fn |-> "get_balance_from_utxos", utxos |-> utxos,
                               overflow_checks |-> overflow_checks,
                               result |-> get_balance(utxos, overflow_checks)]
                   /\ UNCHANGED <<service, wire, dep, tree, last, clientVars>>

\* The UTXOs handed to the hashing functions: every combination of two
\* amounts, blindings, owners, indices, mints and versions.
LibUtxos ==
    {[Utxo(amount, blinding, ZkKeypair(utxo_private_key(wallet)), index, mint)
         EXCEPT !.version = version] :
        amount \in {0, 1}, blinding \in {7, 8}, wallet \in Wallets, index \in {0, 1},
        mint \in {SOL_MINT, USDC_MINT}, version \in UtxoVersions}

\* A caller computes the nullifiers of two UTXOs.
CallNullifier ==
    /\ call = NoCall
    /\ \E u1 \in LibUtxos, u2 \in LibUtxos :
           /\ call' = [fn |-> "get_nullifier", utxos |-> <<u1, u2>>,
                       result |-> <<get_nullifier(u1), get_nullifier(u2)>>]
           /\ UNCHANGED <<service, wire, dep, tree, last, clientVars>>

\* A caller computes the commitments of two UTXOs.
CallCommitment ==
    /\ call = NoCall
    /\ \E u1 \in LibUtxos, u2 \in LibUtxos :
           /\ call' = [fn |-> "get_commitment", utxos |-> <<u1, u2>>,
                       result |-> <<get_commitment(u1), get_commitment(u2)>>]
           /\ UNCHANGED <<service, wire, dep, tree, last, clientVars>>

\* What the log may hold at a position: an output of the caller (any amount),
\* an output of somebody else, or a malformed item.
LogItems(position) ==
    {encrypt_utxo(Me, position,
                  Utxo(amount, 7, ZkKeypair(utxo_private_key(Me)), position - 1, mint_address)) :
        amount \in 0..MaxAmount}
    \cup {encrypt_utxo(Other, position,
                       Utxo(1, 7, ZkKeypair(utxo_private_key(Other)), position - 1,
                            mint_address))}
    \cup {malformed_output(form, Me, position) : form \in MalformedForms}

\* Logs of up to MaxList items.
Logs ==
    UNION {{l \in [1..n -> UNION {LogItems(i) : i \in 1..n}] :
               \A i \in 1..n : l[i] \in LogItems(i)} : n \in 0..MaxList}

\* decrypt_outputs(page) on a page of the log.
CallDecryptOutputs ==
    /\ call = NoCall
    /\ \E start \in 0..Len(log) :
         \E end \in start..Len(log) :
           LET page == SubSeq(log, start + 1, end)
           IN  call' = [fn |-> "decrypt_outputs", encrypted_outputs |-> page,
                        result |-> decrypt_outputs(page)]
    /\ UNCHANGED <<service, wire, dep, tree, last, clientVars>>

(* ---------------- scanner runs over one keyed storage ------------------ *)

\* The scans a process can run: the wallet that owns the outputs and the
\* asset (get_utxos for SOL, get_utxos_spl with the USDC mint for SPL).
Targets ==
    {[owner |-> Me, asset |-> "SOL"], [owner |-> Me, asset |-> "SPL"],
     [owner |-> Other, asset |-> "SOL"]}

\* The scanner runs that can be in progress at the same time.
Runs == {1, 2}

\* constants::get_supported_tokens.
get_supported_tokens == {[name |-> "usdc", mint |-> USDC_MINT]}

\* The first six characters of PROGRAM_ID.to_string().
program_prefix == <<"9fhQBb">>

LSK_FETCH_OFFSET == <<"fetch_offset">>

LSK_ENCRYPTED_OUTPUTS == <<"encrypted_outputs">>

\* Keypair::pubkey, as the characters of its base58 string.
pubkey(wallet) == <<wallet>>

\* get_associated_token_address: the address derived from wallet and mint.
get_associated_token_address(wallet_address, mint) ==
    <<"ata">> \o wallet_address \o <<mint>>

\* Every target is stored under the key of the caller's own address.
localstorage_key_of_program(address) == program_prefix

\* get_utxos::localstorage_key: format!("{}{}", prefix, pubkey).
localstorage_key(address) == program_prefix \o address

\* The storage_key of a run: of the public key for get_utxos, of the
\* associated token account for get_utxos_spl.
storage_key(t) ==
    IF t.asset = "SOL" THEN localstorage_key(pubkey(t.owner))
    ELSE localstorage_key(get_associated_token_address(pubkey(t.owner), USDC_MINT))

\* format!("{}{}", LSK_FETCH_OFFSET, storage_key)
offset_key(t) == LSK_FETCH_OFFSET \o storage_key(t)

\* format!("{}{}", LSK_ENCRYPTED_OUTPUTS, storage_key)
outputs_key(t) == LSK_ENCRYPTED_OUTPUTS \o storage_key(t)

\* An entry of the storage that belongs to no scan.
OtherEntry == <<"settings">>

\* The keys the storage may hold an entry for.
EntryKeys ==
    {offset_key(t) : t \in Targets} \cup {outputs_key(t) : t \in Targets}
    \cup {OtherEntry}

\* A storage without entries.
NoEntries == [k \in EntryKeys |-> None]

\* storage.get(LSK_FETCH_OFFSET + key).and_then(|s| s.parse().ok()).unwrap_or(0)
read_fetch_offset(st, t) ==
    IF IsSome(st[offset_key(t)])
    THEN UnwrapOr(parse_u64(Unwrap(st[offset_key(t)])), 0)
    ELSE 0

\* The two entries of a target's key.
entries_of(st, t) ==
    [fetch_offset |-> st[offset_key(t)], encrypted_outputs |-> st[outputs_key(t)]]

\* A storage that holds these two entries of the target and nothing else.
only_entries(t, e) ==
    [k \in EntryKeys |->
        IF k = offset_key(t) THEN e.fetch_offset
        ELSE IF k = outputs_key(t) THEN e.encrypted_outputs
        ELSE None]

\* The mint of the tree a target is scanned in.
mint_of(t) == IF t.asset = "SOL" THEN SOL_MINT ELSE USDC_MINT

\* GET /utxos/range of the target's tree.
run_range_response(t, start) ==
    [encrypted_outputs |->
         SubSeq(log[t.asset], start + 1,
                Min(start + FETCH_UTXOS_GROUP_SIZE, Len(log[t.asset]))),
     has_more |-> start + FETCH_UTXOS_GROUP_SIZE < Len(log[t.asset])]

\* decrypt_outputs / decrypt_outputs_spl with the target's encryption
\* service, indices from the indexer of the target's tree; the indices
\* request fails for a string the tree does not hold.
run_decrypt_outputs(t, encrypted_outputs) ==
    LET owned(e) == IsSome(decrypt_utxo_from_hex(t.owner, e))
        outputs == SelectSeq(encrypted_outputs, owned)
        tree_log == log[t.asset]
        in_tree(e) == \E i \in 1..Len(tree_log) : tree_log[i] = e
        index_of(e) == (CHOOSE i \in 1..Len(tree_log) : tree_log[i] = e) - 1
    IN  IF \A i \in 1..Len(outputs) : in_tree(outputs[i])
        THEN Ok([outputs |-> outputs,
                 utxos |-> [i \in 1..Len(outputs) |->
                              [Unwrap(decrypt_utxo_from_hex(t.owner, outputs[i]))
                                  EXCEPT !.index = index_of(outputs[i])]]])
        ELSE Err("ApiError")

\* A run slot without a run.
NoRun ==
    [pc |-> "idle", target |-> [owner |-> Me, asset |-> "SOL"],
     valid_utxos |-> <<>>, valid_strings |-> <<>>, round_start_index |-> 0,
     fetch_offset |-> 0, fetched_utxos |-> <<>>, encrypted_outputs |-> <<>>,
     has_more |-> FALSE, len |-> 0, result |-> None, pages |-> 0,
     entry |-> EmptyStorage, left |-> EmptyStorage, shared |-> FALSE,
     cleared |-> FALSE, after_clear |-> FALSE]

\* Entry of get_utxos / get_utxos_spl, up to the first suspension.
run_begin(t, st) ==
    [NoRun EXCEPT !.pc = "loop", !.target = t,
                  !.round_start_index = read_fetch_offset(st, t),
                  !.entry = entries_of(st, t)]

\* Top of the page loop: fetch_offset = max(stored offset, round_start_index)
\* and the range request is sent.
run_loop_head(rn, st) ==
    [rn EXCEPT !.pc = "fetch",
               !.fetch_offset = Max(read_fetch_offset(st, rn.target),
                                    rn.round_start_index)]

\* The cached owned outputs are not read.
cached_strings_unread(rn, st) == {}

\* The cached owned outputs fetch_user_utxos reads with the last page.
cached_strings(rn, st) ==
    LET page == run_range_response(rn.target, rn.fetch_offset)
        entry == st[outputs_key(rn.target)]
    IN  IF ~page.has_more /\ IsSome(entry) THEN Unwrap(entry).json ELSE {}

\* fetch_user_utxos: the page arrives and is trial-decrypted; on the last page
\* the cached owned outputs, in the order the stored list has, are too.
run_fetch(rn, st, cached_outputs) ==
    LET page == run_range_response(rn.target, rn.fetch_offset)
        fresh == run_decrypt_outputs(rn.target, page.encrypted_outputs)
        cached == run_decrypt_outputs(rn.target, cached_outputs)
    IN  IF fresh.ok /\ cached.ok
        THEN [rn EXCEPT !.pc = "classify",
                        !.fetched_utxos = fresh.value.utxos \o cached.value.utxos,
                        !.encrypted_outputs = fresh.value.outputs \o cached.value.outputs,
                        !.has_more = page.has_more,
                        !.len = Len(page.encrypted_outputs)]
        ELSE [rn EXCEPT !.pc = "returned", !.result = Some(Err("ApiError"))]

\* The rest of the iteration: spent check, accumulation, the offset write and,
\* after the last page, the owned-output write and the return.
run_classify(rn, st) ==
    LET t == rn.target
        keep == unspent_indexes(rn.fetched_utxos)
        valid_utxos == rn.valid_utxos \o
                       [k \in 1..Len(keep) |-> rn.fetched_utxos[keep[k]]]
        valid_strings == rn.valid_strings \o
                       [k \in 1..Len(keep) |-> rn.encrypted_outputs[keep[k]]]
        unique_strings == {valid_strings[k] : k \in 1..Len(valid_strings)}
        same_mint(u) == u.mint_address = mint_of(t)
        returned == IF t.asset = "SPL" THEN SelectSeq(valid_utxos, same_mint)
                    ELSE valid_utxos
        with_offset == [st EXCEPT ![offset_key(t)] =
                                      Some(to_string(rn.fetch_offset + rn.len))]
        written == IF rn.has_more THEN with_offset
                   ELSE [with_offset EXCEPT ![outputs_key(t)] =
                                                Some([json |-> unique_strings])]
    IN  [run |-> [rn EXCEPT !.pc = IF rn.has_more THEN "loop" ELSE "returned",
                            !.valid_utxos = valid_utxos,
                            !.valid_strings = valid_strings,
                            !.result = IF rn.has_more THEN None
                                       ELSE Some(Ok(returned)),
                            !.pages = @ + 1,
                            !.left = entries_of(written, t)],
         storage |-> written]

\* One step of a run with nothing else going on.
run_step(rn, st) ==
    IF rn.pc = "loop" THEN [run |-> run_loop_head(rn, st), storage |-> st]
    ELSE IF rn.pc = "fetch"
    THEN [run |-> run_fetch(rn, st,
                     CHOOSE q \in Orderings(cached_strings(rn, st)) : TRUE),
          storage |-> st]
    ELSE IF rn.pc = "classify" THEN run_classify(rn, st)
    ELSE [run |-> rn, storage |-> st]

\* get_utxos / get_utxos_spl from entry to return, run on its own.
RECURSIVE run_alone(_, _)
run_alone(rn, st) ==
    IF rn.pc = "returned" THEN [run |-> rn, storage |-> st]
    ELSE LET s == run_step(rn, st) IN run_alone(s.run, s.storage)

\* PrivacyCash::clear_cache leaves the entries of the token accounts.
clear_cache_own_key_only(st) ==
    LET own == [owner |-> Me, asset |-> "SOL"]
    IN  [k \in EntryKeys |->
            IF k \in {offset_key(own), outputs_key(own)} THEN None ELSE st[k]]

\* PrivacyCash::clear_cache of the caller's client: the two entries of its
\* own key and of the token account of every supported token are removed.
clear_cache(st) ==
    LET own == localstorage_key(pubkey(Me))
        atas == {localstorage_key(get_associated_token_address(pubkey(Me), token.mint)) :
                    token \in get_supported_tokens}
        removed == UNION {{LSK_FETCH_OFFSET \o key, LSK_ENCRYPTED_OUTPUTS \o key} :
                             key \in {own} \cup atas}
    IN  [k \in EntryKeys |-> IF k \in removed THEN None ELSE st[k]]

\* Whether a run is between its entry and its return.
InProgress(rn) == rn.pc \in {"loop", "fetch", "classify"}

\* The targets whose entries were written by a run that overlapped another
\* run of the same key or a clear_cache (history), after a write of run r.
tainted_after(r) ==
    IF scan[r].shared \/ scan[r].cleared
    THEN last.tainted \cup {scan[r].target}
    ELSE last.tainted

\* The application calls get_utxos (or get_utxos_spl) for target t in run
\* slot r.
RunBegin(r, t) ==
    /\ scan[r].pc = "idle"
    /\ LET overlap(o) == o # r /\ InProgress(scan[o])
                          /\ storage_key(scan[o].target) = storage_key(t)
       IN  scan' = [o \in Runs |->
                      IF o = r
                      THEN [run_begin(t, storage) EXCEPT
                               !.shared = \E x \in Runs : overlap(x),
                               !.after_clear = (last.op = "clear_cache")]
                      ELSE IF overlap(o) THEN [scan[o] EXCEPT !.shared = TRUE]
                      ELSE scan[o]]
    /\ last' = [last EXCEPT !.op = "begin"]
    /\ UNCHANGED <<libVars, tree, asset, log, nullifier_accounts, storage,
                   abort_signal, op, found, after_deposit>>

RunLoopHead(r) ==
    /\ scan[r].pc = "loop"
    /\ scan' = [scan EXCEPT ![r] = run_loop_head(scan[r], storage)]
    /\ UNCHANGED <<libVars, tree, last, asset, log, nullifier_accounts, storage,
                   abort_signal, op, found, after_deposit>>

RunFetch(r) ==
    /\ scan[r].pc = "fetch"
    /\ \E cached_outputs \in Orderings(cached_strings(scan[r], storage)) :
         scan' = [scan EXCEPT ![r] = run_fetch(scan[r], storage, cached_outputs)]
    /\ UNCHANGED <<libVars, tree, last, asset, log, nullifier_accounts, storage,
                   abort_signal, op, found, after_deposit>>

RunClassify(r) ==
    /\ scan[r].pc = "classify"
    /\ LET s == run_classify(scan[r], storage)
       IN  /\ scan' = [scan EXCEPT ![r] = s.run]
           /\ storage' = s.storage
    /\ last' = [last EXCEPT !.op = "write", !.tainted = tainted_after(r)]
    /\ UNCHANGED <<libVars, tree, asset, log, nullifier_accounts,
                   abort_signal, op, found, after_deposit>>

\* The application takes the result of the run.
RunReturn(r) ==
    /\ scan[r].pc = "returned"
    /\ scan' = [scan EXCEPT ![r] = NoRun]
    /\ UNCHANGED <<libVars, tree, last, asset, log, nullifier_accounts, storage,
                   abort_signal, op, found, after_deposit>>

\* The application calls clear_cache, at any moment (once during a run).
ClearCache ==
    /\ storage # clear_cache(storage)
    /\ \A r \in Runs : ~scan[r].cleared
    /\ storage' = clear_cache(storage)
    /\ scan' = [o \in Runs |->
                  IF InProgress(scan[o]) /\ scan[o].target.owner = Me
                  THEN [scan[o] EXCEPT !.cleared = TRUE] ELSE scan[o]]
    /\ last' = [op |-> "clear_cache", before |-> storage,
                tainted |-> {t \in last.tainted : t.owner # Me}]
    /\ UNCHANGED <<libVars, tree, asset, log, nullifier_accounts,
                   abort_signal, op, found, after_deposit>>

\* Something else of the application writes its own entry.
WriteOtherEntry ==
    /\ storage[OtherEntry] = None
    /\ storage' = [storage EXCEPT ![OtherEntry] = Some("1")]
    /\ last' = [last EXCEPT !.op = "write"]
    /\ UNCHANGED <<libVars, tree, asset, log, nullifier_accounts, scan,
                   abort_signal, op, found, after_deposit>>

\* Somebody's transaction appends an encrypted output to the log of a tree,
\* before the application makes its calls; the token tree holds outputs of
\* the caller only.
AppendTo(tree_asset) ==
    /\ last.op = "new"
    /\ Len(log[tree_asset]) < MaxLog
    /\ \E owner \in Wallets :
         /\ tree_asset = "SPL" => owner = Me
         /\ log' = [log EXCEPT ![tree_asset] =
                       Append(@, encrypt_utxo(owner, Len(@) + 1,
                           Utxo(1, 7, ZkKeypair(utxo_private_key(owner)), Len(@),
                                IF tree_asset = "SOL" THEN SOL_MINT ELSE USDC_MINT)))]
    /\ UNCHANGED <<libVars, tree, last, asset, nullifier_accounts, storage,
                   abort_signal, scan, op, found, after_deposit>>

(* ------------- deposit_spl: the root and the inclusion proofs ------------ *)

\* deposit_spl between its balance checks and the prover, with nothing
\* fetched yet; `appended` records (history) an output appended to the
\* ledger after the tree state was fetched.
NoProofs ==
    [pc |-> "idle", root |-> None, next_index |-> 0, existing_utxos |-> <<>>,
     inputs |-> <<>>, paths |-> <<>>, circuit_input |-> None, appended |-> FALSE]

\* The UTXOs of the ledger that get_utxos_spl returns to the caller.
ledger_utxos_of(wallet) ==
    LET mine(u) == u.keypair = ZkKeypair(utxo_private_key(wallet))
    IN  SelectSeq(log, mine)

\* GET /merkle/root: root and next index of the relayer's accumulator.
query_remote_tree_state == [root |-> root(tree), next_index |-> next_index(tree)]

\* GET /merkle/proof/{commitment}: the path of the leaf in the accumulator
\* as it is when the request arrives.
relayer_merkle_proof(commitment) ==
    LET index == (CHOOSE i \in 1..Len(log) : get_commitment(log[i]) = commitment) - 1
    IN  path(tree, index).value

\* CircuitInput.root: tree_state.root, fetched before the scan.
circuit_root(d) == Unwrap(d.root)

\* Somebody's transaction appends an output: the ledger inserts its
\* commitment into the accumulator.
LedgerAppend ==
    /\ Len(log) < MaxList
    /\ Len(log) < tree.capacity
    /\ \E owner \in Wallets :
         LET utxo == Utxo(1, Len(log) + 1, ZkKeypair(utxo_private_key(owner)),
                          Len(log), USDC_MINT)
         IN  /\ log' = Append(log, utxo)
             /\ tree' = insert(tree, get_commitment(utxo)).value
    /\ dep' = IF dep.pc \in {"scan", "first_proof", "second_proof"}
              THEN [dep EXCEPT !.appended = TRUE] ELSE dep
    /\ UNCHANGED <<service, wire, call, last, asset, nullifier_accounts, storage,
                   abort_signal, scan, op, found, after_deposit>>

\* deposit_spl has passed its balance checks.
ProofsCall ==
    /\ dep.pc = "idle"
    /\ dep' = [NoProofs EXCEPT !.pc = "tree_state"]
    /\ UNCHANGED <<service, wire, call, tree, last, clientVars>>

\* query_remote_tree_state answers.
ProofsTreeState ==
    /\ dep.pc = "tree_state"
    /\ dep' = [dep EXCEPT !.pc = "scan",
                          !.root = Some(query_remote_tree_state.root),
                          !.next_index = query_remote_tree_state.next_index]
    /\ UNCHANGED <<service, wire, call, tree, last, clientVars>>

\* get_utxos_spl returns; the inputs are selected, and without an existing
\* UTXO both paths are the zero path.
ProofsScan ==
    /\ dep.pc = "scan"
    /\ LET existing_utxos == ledger_utxos_of(Me)
           inputs == deposit_inputs(existing_utxos, ZkKeypair(utxo_private_key(Me)), 7)
       IN  dep' = [dep EXCEPT !.pc = IF existing_utxos = <<>> THEN "build"
                                     ELSE "first_proof",
                              !.existing_utxos = existing_utxos,
                              !.inputs = inputs,
                              !.paths = <<zero_path, zero_path>>]
    /\ UNCHANGED <<service, wire, call, tree, last, clientVars>>

\* fetch_merkle_proof(first_commitment) answers.
ProofsFirst ==
    /\ dep.pc = "first_proof"
    /\ dep' = [dep EXCEPT !.pc = IF ~is_dummy(dep.inputs[2]) THEN "second_proof"
                                 ELSE "build",
                          !.paths[1] = relayer_merkle_proof(get_commitment(dep.inputs[1]))]
    /\ UNCHANGED <<service, wire, call, tree, last, clientVars>>

\* fetch_merkle_proof(second_commitment) answers.
ProofsSecond ==
    /\ dep.pc = "second_proof"
    /\ dep' = [dep EXCEPT !.pc = "build",
                          !.paths[2] = relayer_merkle_proof(get_commitment(dep.inputs[2]))]
    /\ UNCHANGED <<service, wire, call, tree, last, clientVars>>

\* The circuit input is built.
ProofsBuild ==
    /\ dep.pc = "build"
    /\ dep' = [dep EXCEPT !.pc = "built",
                          !.circuit_input =
                              Some([root |-> circuit_root(dep),
                                    in_path_indices |-> [k \in 1..2 |-> dep.inputs[k].index],
                                    in_path_elements |->
                                        [k \in 1..2 |-> dep.paths[k].path_elements]])]
    /\ UNCHANGED <<service, wire, call, tree, last, clientVars>>

\* The circuit input goes to the prover; the call is over for this model.
ProofsReturn ==
    /\ dep.pc = "built"
    /\ dep' = NoProofs
    /\ UNCHANGED <<service, wire, call, tree, last, clientVars>>

(* ---------------------------- specification ---------------------------- *)

Init ==
    /\ asset \in {"SOL", "SPL"}
    /\ log = <<>>
    /\ nullifier_accounts = {}
    /\ storage = EmptyStorage
    /\ abort_signal = FALSE
    /\ scan = IdleScan
    /\ op = IdleOp
    /\ found = {}
    /\ after_deposit = None
    /\ tree = MerkleTree_new(MaxLevels)
    /\ last = [op |-> "new"]
    /\ service = EncryptionService_new
    /\ wire = None
    /\ call = NoCall
    /\ dep = IdleDeposit

Next ==
    \/ ScanLoopHead
    \/ ScanFetch
    \/ ScanClassify
    \/ ScanError
    \/ CrashMidCommit
    \/ Crash
    \/ GetUtxosCall
    \/ GetUtxosReturn
    \/ WithdrawAllCall
    \/ WithdrawAllFinish
    \/ OpReturn
    \/ DepositSplCall
    \/ DepositSplFinish
    \/ DepositSplFail
    \/ EnvAppend
    \/ EnvSpend
    \/ SetAbort

Spec == Init /\ [][Next]_vars

\* The Merkle tree on its own: a new tree of some depth, then inserts, paths
\* and verifications in any order.
TreeInit ==
    /\ asset = "SOL"
    /\ log = <<>>
    /\ nullifier_accounts = {}
    /\ storage = EmptyStorage
    /\ abort_signal = FALSE
    /\ scan = IdleScan
    /\ op = IdleOp
    /\ found = {}
    /\ after_deposit = None
    /\ \E levels \in 1..MaxLevels : tree = MerkleTree_new(levels)
    /\ last = [op |-> "new"]
    /\ service = EncryptionService_new
    /\ wire = None
    /\ call = NoCall
    /\ dep = IdleDeposit

TreeNext ==
    \/ TreeInsert
    \/ TreePath
    \/ TreeVerify

SpecTree == TreeInit /\ [][TreeNext]_vars

\* The Merkle tree under calls that may fail: a new tree of some depth, then
\* insert, update, bulk_insert and path with any arguments, in any order.
TreeOpsInit ==
    /\ asset = "SOL"
    /\ log = <<>>
    /\ nullifier_accounts = {}
    /\ storage = EmptyStorage
    /\ abort_signal = FALSE
    /\ scan = IdleScan
    /\ op = IdleOp
    /\ found = {}
    /\ after_deposit = None
    /\ \E levels \in 1..MaxLevels : tree = MerkleTree_new(levels)
    /\ last = [op |-> "new", clean |-> TRUE]
    /\ service = EncryptionService_new
    /\ wire = None
    /\ call = NoCall
    /\ dep = IdleDeposit

TreeOpsNext ==
    \/ TreeOpInsert
    \/ TreeOpUpdate
    \/ TreeOpBulkInsert
    \/ TreeOpPath

SpecTreeOps == TreeOpsInit /\ [][TreeOpsNext]_vars

\* The pure functions of the library, applied to inputs of their types.
LibInit ==
    /\ asset = "SOL"
    /\ log = <<>>
    /\ nullifier_accounts = {}
    /\ storage = EmptyStorage
    /\ abort_signal = FALSE
    /\ scan = IdleScan
    /\ op = IdleOp
    /\ found = {}
    /\ after_deposit = None
    /\ tree = MerkleTree_new(MaxLevels)
    /\ last = [op |-> "new"]
    /\ service = EncryptionService_new
    /\ wire = None
    /\ call = NoCall
    /\ dep = IdleDeposit

LibNext ==
    \/ CallReturn
    \/ CallPublicAmount
    \/ CallBalance
    \/ CallNullifier
    \/ CallCommitment
    \/ CallSerialize
    \/ CallDeserialize

SpecLib == LibInit /\ [][LibNext]_vars

\* One EncryptionService on its own, its operations called in any order on
\* messages it wrote, legacy messages, and altered ones.
CryptoInit == LibInit

CryptoNext ==
    \/ CallReturn
    \/ Derive
    \/ Reset
    \/ Encrypt
    \/ LegacyV1
    \/ Tamper
    \/ Decrypt
    \/ EncryptUtxo
    \/ DecryptUtxo
    \/ GetUtxoPrivateKey

SpecCrypto == CryptoInit /\ [][CryptoNext]_vars

\* One EncryptionService reading messages of both formats: UTXOs it wrote,
\* legacy V1 UTXOs of either wallet, and messages altered in their first 8
\* bytes or cut short.
DispatchInit == LibInit

DispatchNext ==
    \/ CallReturn
    \/ Derive
    \/ EncryptUtxo
    \/ LegacyV1Utxo
    \/ TamperVersion
    \/ Truncate
    \/ Decrypt
    \/ DecryptUtxo

SpecDispatch == DispatchInit /\ [][DispatchNext]_vars

\* The two storage backends side by side under one sequence of calls.
StorageInit ==
    /\ asset = "SOL"
    /\ log = <<>>
    /\ nullifier_accounts = {}
    /\ \E disk \in CacheDirs :
         storage = [file |-> FileStorage_new(disk), memory |-> MemoryStorage_new,
                    latest |-> EmptyMap, opened_over |-> disk]
    /\ abort_signal = FALSE
    /\ scan = IdleScan
    /\ op = IdleOp
    /\ found = {}
    /\ after_deposit = None
    /\ tree = MerkleTree_new(1)
    /\ last = [op |-> "new"]
    /\ service = EncryptionService_new
    /\ wire = None
    /\ call = NoCall
    /\ dep = IdleDeposit

StorageNext ==
    \/ StorageSet
    \/ StorageRemove
    \/ StorageClear
    \/ StorageGet

SpecStorage == StorageInit /\ [][StorageNext]_vars

\* Two scanner runs at a time over one storage, for different keys: the
\* caller's SOL scan next to its token scan or to the SOL scan of another
\* owner, interleaved at their suspension points.
RunsInit ==
    /\ asset = "SOL"
    /\ log = [SOL |-> <<>>, SPL |-> <<>>]
    /\ nullifier_accounts = {}
    /\ storage = NoEntries
    /\ abort_signal = FALSE
    /\ scan = [r \in Runs |-> NoRun]
    /\ op = IdleOp
    /\ found = {}
    /\ after_deposit = None
    /\ tree = MerkleTree_new(1)
    /\ last = [op |-> "new", before |-> NoEntries, tainted |-> {}]
    /\ service = EncryptionService_new
    /\ wire = None
    /\ call = NoCall
    /\ dep = IdleDeposit

RunsNext ==
    \/ RunBegin(1, [owner |-> Me, asset |-> "SOL"])
    \/ \E t \in Targets \ {[owner |-> Me, asset |-> "SOL"]} : RunBegin(2, t)
    \/ \E r \in Runs : RunLoopHead(r)
    \/ \E r \in Runs : RunFetch(r)
    \/ \E r \in Runs : RunClassify(r)
    \/ \E r \in Runs : RunReturn(r)
    \/ \E tree_asset \in {"SOL", "SPL"} : AppendTo(tree_asset)

SpecRuns == RunsInit /\ [][RunsNext]_vars

\* Two scanner runs at a time for the same key: the caller's SOL scan.
SameKeyInit == RunsInit

SameKeyNext ==
    \/ \E r \in Runs : RunBegin(r, [owner |-> Me, asset |-> "SOL"])
    \/ \E r \in Runs : RunLoopHead(r)
    \/ \E r \in Runs : RunFetch(r)
    \/ \E r \in Runs : RunClassify(r)
    \/ \E r \in Runs : RunReturn(r)
    \/ AppendTo("SOL")

SpecSameKey == SameKeyInit /\ [][SameKeyNext]_vars

\* One client and its storage: scanner runs of any target one after the
\* other, clear_cache at any moment, and another entry in the storage.
ClearInit == RunsInit

ClearNext ==
    \/ \E t \in Targets : RunBegin(1, t)
    \/ RunLoopHead(1)
    \/ RunFetch(1)
    \/ RunClassify(1)
    \/ RunReturn(1)
    \/ ClearCache
    \/ WriteOtherEntry
    \/ \E tree_asset \in {"SOL", "SPL"} : AppendTo(tree_asset)

SpecClear == ClearInit /\ [][ClearNext]_vars

\* deposit_spl on its own: calls with any amount and mint, against an RPC
\* node, a relayer and a prover that answer in any way they can.
DepositInit ==
    /\ asset = "SPL"
    /\ log = <<>>
    /\ nullifier_accounts = {}
    /\ storage = EmptyStorage
    /\ abort_signal = FALSE
    /\ scan = IdleScan
    /\ op = IdleOp
    /\ found = {}
    /\ after_deposit = None
    /\ tree = MerkleTree_new(MaxLevels)
    /\ last = [op |-> "new"]
    /\ service = EncryptionService_new
    /\ wire = None
    /\ call = NoCall
    /\ dep = IdleDeposit

DepositNext ==
    \/ DepositCall
    \/ DepositTokenBalance
    \/ DepositSolBalance
    \/ DepositTreeState
    \/ DepositScan
    \/ DepositSelect
    \/ DepositProve
    \/ DepositRelay
    \/ ConfirmSleep
    \/ ConfirmCheck
    \/ DepositReturn

SpecDeposit == DepositInit /\ [][DepositNext]_vars

\* The same with the scheduling the runtime gives the confirmation wait: a
\* sleep that is due ends, and a request that was sent comes back or fails.
SpecDepositFair ==
    /\ DepositInit
    /\ [][DepositNext]_vars
    /\ WF_vars(ConfirmSleep)
    /\ WF_vars(ConfirmCheck)

\* deposit_spl from the tree-state request to the circuit input, against a
\* ledger other parties append to at any moment.
ProofsInit ==
    /\ asset = "SPL"
    /\ log = <<>>
    /\ nullifier_accounts = {}
    /\ storage = EmptyStorage
    /\ abort_signal = FALSE
    /\ scan = IdleScan
    /\ op = IdleOp
    /\ found = {}
    /\ after_deposit = None
    /\ tree = MerkleTree_new(MaxLevels)
    /\ last = [op |-> "new"]
    /\ service = EncryptionService_new
    /\ wire = None
    /\ call = NoCall
    /\ dep = NoProofs

ProofsNext ==
    \/ LedgerAppend
    \/ ProofsCall
    \/ ProofsTreeState
    \/ ProofsScan
    \/ ProofsFirst
    \/ ProofsSecond
    \/ ProofsBuild
    \/ ProofsReturn

SpecProofs == ProofsInit /\ [][ProofsNext]_vars

\* decrypt_outputs on its own: any page of any log.
PageInit ==
    /\ asset \in {"SOL", "SPL"}
    /\ log \in Logs
    /\ nullifier_accounts = {}
    /\ storage = EmptyStorage
    /\ abort_signal = FALSE
    /\ scan = IdleScan
    /\ op = IdleOp
    /\ found = {}
    /\ after_deposit = None
    /\ tree = MerkleTree_new(MaxLevels)
    /\ last = [op |-> "new"]
    /\ service = EncryptionService_new
    /\ wire = None
    /\ call = NoCall
    /\ dep = IdleDeposit

PageNext ==
    \/ CallDecryptOutputs
    \/ CallReturn

SpecPage == PageInit /\ [][PageNext]_vars

(* ------------------------------ properties ----------------------------- *)

\* A scanner run has completed with Ok(utxos).
ScanOk == scan.pc = "returned" /\ IsSome(scan.result) /\ Unwrap(scan.result).ok

ScanValue == Unwrap(scan.result).value

ScanAborted == scan.pc = "returned" /\ scan.result = Some(Err("Aborted"))

\* The ledger holds a nullifier account of the UTXO under either seed prefix.
SpentOnLedger(utxo) ==
    \E prefix \in {"nullifier0", "nullifier1"} :
        <<prefix, get_nullifier(utxo)>> \in nullifier_accounts

\* Log positions of the outputs that decrypt under the caller's key, carry a
\* non-zero amount of the scanned asset and have no nullifier account.
OwnedUnspent ==
    {i \in 1..Len(log) :
        /\ log[i].key = Me
        /\ log[i].amount > 0
        /\ log[i].mint_address = mint_address
        /\ ~SpentOnLedger(owner_utxo(log[i]))}

\* Log positions of the UTXOs a completed run returned.
ReturnedPositions == {ScanValue[k].index + 1 : k \in 1..Len(ScanValue)}

\* C1: every completed scanner run returns exactly the owned, non-zero,
\* un-nullified outputs of the whole log, each once, including those on
\* pages before the persisted fetch offset.
C1_ScannerComplete ==
    ScanOk =>
        /\ ReturnedPositions = OwnedUnspent
        /\ Len(ScanValue) = Cardinality(OwnedUnspent)

\* A completed run misses an unspent owned output only if that output was
\* found on a page whose offset an earlier run committed.
MissedOnlyIfFoundBefore ==
    ScanOk => (OwnedUnspent \ ReturnedPositions) \subseteq found

\* C2: a decrypted UTXO with at least one of its nullifier0 / nullifier1
\* accounts on the ledger is not in the returned set nor in the balance
\* summed from it; a non-zero decrypted UTXO with neither account is kept.
C2_SpentFiltered ==
    ScanOk =>
        /\ \A k \in 1..Len(ScanValue) : ~SpentOnLedger(ScanValue[k])
        /\ \A i \in 1..Len(scan.fetched_utxos) :
              LET u == scan.fetched_utxos[i]
              IN  (amount_u64(u) > 0 /\ ~SpentOnLedger(u))
                      <=> (\E k \in 1..Len(ScanValue) : ScanValue[k] = u)
        /\ get_balance_from_utxos(ScanValue) =
              SeqSum([k \in 1..Len(ScanValue) |->
                        IF SpentOnLedger(ScanValue[k]) THEN 0 ELSE ScanValue[k].amount])

\* A completed run that decrypted a UTXO spent under the nullifier1 prefix
\* only, and another one with neither account.
C2_Witness ==
    /\ ScanOk
    /\ \E i \in 1..Len(scan.fetched_utxos) :
          LET u == scan.fetched_utxos[i]
          IN  /\ amount_u64(u) > 0
              /\ account_exists("nullifier1", get_nullifier(u))
              /\ ~account_exists("nullifier0", get_nullifier(u))
    /\ Len(ScanValue) > 0

\* C3: after a run that stopped (crash, Aborted, error), a run that completes
\* returns every owned UTXO that an earlier run found unspent on a committed
\* page and that is still unspent: none is lost.
C3_RetrySafe ==
    ScanOk => (found \cap OwnedUnspent) \subseteq ReturnedPositions

\* C4: a run returns Aborted only from the top of a page iteration, before
\* that page is requested: the persisted offset is the one its completed
\* pages committed, the cached outputs are untouched, no request was made
\* after the last commit; with the flag set at the call the storage is as it
\* was and no request was made at all.
C4_Cancellation ==
    ScanAborted =>
        /\ storage.fetch_offset = scan.committed
        /\ storage.encrypted_outputs = scan.entry_storage.encrypted_outputs
        /\ scan.requests = scan.req_at_commit
        /\ scan.pages = 0 => (storage = scan.entry_storage /\ scan.requests = 0)

\* A run cancelled after it completed a page: the flag was not yet set when
\* that page began.
C4_Witness == ScanAborted /\ scan.pages > 0 /\ storage # scan.entry_storage

\* C5: after a confirmed deposit of X made from an empty unspent set, the
\* next completed scan sums to exactly X minus the deposit fee.
C5_DepositThenBalance ==
    (IsSome(after_deposit) /\ Unwrap(after_deposit).from_empty /\ ScanOk) =>
        get_balance_from_utxos(ScanValue) =
            Unwrap(after_deposit).base_units - fee_base_units

\* The re-scan after such a deposit found the value-carrying output.
C5_Witness ==
    /\ IsSome(after_deposit)
    /\ Unwrap(after_deposit).from_empty
    /\ ScanOk
    /\ Len(ScanValue) = 1
    /\ ScanValue[1].amount = MaxDeposit

WithdrawAllDone == op.kind = "done" /\ op.call = "withdraw_all"

InsufficientBalance == Err([kind |-> "InsufficientBalance", need |-> 1, have |-> 0])

\* C6 as stated: with a balance of 0, withdraw_all fails with
\* InsufficientBalance{need: 1, have: 0} having made no network call and
\* started no withdrawal.
C6_NoNetworkCall ==
    (WithdrawAllDone /\ op.balance = Some(0)) =>
        /\ op.result = Some(InsufficientBalance)
        /\ op.withdraw_calls = <<>>
        /\ op.net_calls = 0

\* C6 amended: with a balance of 0, withdraw_all fails with
\* InsufficientBalance{need: 1, have: 0} without starting a withdrawal; the
\* only network calls are those of the balance scan, which makes at least one.
C6_NoWithdrawal ==
    (WithdrawAllDone /\ op.balance = Some(0)) =>
        /\ op.result = Some(InsufficientBalance)
        /\ op.withdraw_calls = <<>>
        /\ op.net_calls >= 1

\* withdraw_all finished on a zero balance although the log holds an output
\* of the caller (spent, or of amount zero).
C6_Witness ==
    /\ WithdrawAllDone
    /\ op.balance = Some(0)
    /\ \E i \in 1..Len(log) : log[i].key = Me

\* C7: with a scanned balance B > 0, withdraw_all requests exactly one
\* withdrawal, of exactly B, to the recipient given or to the caller's own
\* address when none is given.
C7_WithdrawExactBalance ==
    (WithdrawAllDone /\ IsSome(op.balance) /\ Unwrap(op.balance) > 0) =>
        /\ Len(op.withdraw_calls) = 1
        /\ op.withdraw_calls[1].amount = Unwrap(op.balance)
        /\ op.withdraw_calls[1].recipient =
              (IF op.recipient = None THEN self_pubkey ELSE Unwrap(op.recipient))

\* withdraw_all finished on a balance summed from two UTXOs, with a recipient.
C7_Witness ==
    /\ WithdrawAllDone
    /\ op.balance = Some(2)
    /\ op.recipient = Some("recipient")

\* C8: after every insertion, for every i < n, path(i) has exactly `levels`
\* siblings and `levels` index bits and verifies leaf i against root().
C8_PathsVerify ==
    \A i \in 0..(next_index(tree) - 1) :
        LET p == path(tree, i)
        IN  /\ p.ok
            /\ Len(p.value.path_elements) = tree.levels
            /\ Len(p.value.path_indices) = tree.levels
            /\ verify(p.value, At(elements(tree), i), root(tree))

\* The path of the last leaf of a full tree of the greatest depth, a right
\* child on every level, was verified as returned.
C8_Witness ==
    /\ tree.levels = MaxLevels
    /\ next_index(tree) = tree.capacity
    /\ last.op = "verify"
    /\ last.index = tree.capacity - 1
    /\ last.path = path(tree, last.index).value
    /\ last.leaf = At(elements(tree), last.index)
    /\ last.result

\* The path verified last differs from path(index) in one sibling.
OneSiblingReplaced ==
    LET p == path(tree, last.index).value
    IN  /\ last.path.path_indices = p.path_indices
        /\ Cardinality({l \in 1..tree.levels :
                           last.path.path_elements[l] # p.path_elements[l]}) = 1

C10_Capacity ==
    last.op = "insert" =>
        IF last.old_len < 2 ^ tree.levels
        THEN /\ last.result.ok
             /\ next_index(tree) = last.old_len + 1
             /\ At(elements(tree), last.old_len) = last.element
        ELSE /\ last.result = Err([kind |-> "MerkleProofError", msg |-> "Tree is full"])
             /\ next_index(tree) = last.old_len

\* The insert after the 2^levels-th one was refused.
C10_Witness ==
    /\ last.op = "insert"
    /\ last.old_len = 2 ^ tree.levels
    /\ ~last.result.ok
    /\ tree.levels = MaxLevels

\* C11: for every signed 64-bit ext_amount and unsigned 64-bit fee,
\* calculate_public_amount returns (ext_amount - fee) mod FIELD_SIZE, a value
\* in [0, FIELD_SIZE); the analogues of (1000, 100) -> 900 and
\* (-1000, 100) -> FIELD_SIZE - 1100 are among the cases.
C11_PublicAmount ==
    call.fn = "calculate_public_amount" =>
        /\ call.result = Ok((call.ext_amount - call.fee) % FIELD_SIZE)
        /\ call.result.value \in 0..(FIELD_SIZE - 1)

\* Every input but ext_amount = i64::MIN under overflow checks conforms.
PublicAmountExceptMinChecked ==
    (call.fn = "calculate_public_amount"
        /\ ~(call.ext_amount = I64_MIN /\ call.overflow_checks)) =>
        /\ call.result = Ok((call.ext_amount - call.fee) % FIELD_SIZE)
        /\ call.result.value \in 0..(FIELD_SIZE - 1)

\* The arithmetic sum of the amounts of the UTXOs of the last call.
AmountSum == SeqSum([i \in 1..Len(call.utxos) |-> call.utxos[i].amount])

\* C12: get_balance_from_utxos returns the arithmetic sum of the amounts of a
\* list of UTXOs (0 for the empty list, zero-amount dummies adding nothing).
C12_BalanceIsSum ==
    call.fn = "get_balance_from_utxos" => call.result = Ok(AmountSum)

\* Whenever the sum of the amounts fits a u64, the balance is that sum.
BalanceIsSumWithinU64 ==
    (call.fn = "get_balance_from_utxos" /\ AmountSum <= U64_MAX) =>
        call.result = Ok(AmountSum)

\* The two UTXOs of the last call agree on amount, keypair, blinding and asset.
SameCoin ==
    LET u1 == call.utxos[1]
        u2 == call.utxos[2]
    IN  /\ u1.amount = u2.amount
        /\ u1.keypair = u2.keypair
        /\ u1.blinding = u2.blinding
        /\ u1.mint_address = u2.mint_address

\* C17: two UTXOs with the same (amount, keypair, blinding, asset) and
\* different indices have different nullifiers (the hash being collision-free),
\* and the nullifier of one UTXO is the same every time it is computed.
C17_NullifierUnique ==
    call.fn = "get_nullifier" =>
        /\ (SameCoin /\ call.utxos[1].index # call.utxos[2].index)
               => call.result[1] # call.result[2]
        /\ call.utxos[1] = call.utxos[2] => call.result[1] = call.result[2]

C17_Witness ==
    /\ call.fn = "get_nullifier"
    /\ SameCoin
    /\ call.utxos[1].index # call.utxos[2].index
    /\ call.result[1] # call.result[2]

\* C18: get_commitment returns the same value for the same UTXO, and the value
\* depends on neither the index nor the version: two UTXOs that agree on
\* amount, keypair, blinding and asset have the same commitment.
C18_CommitmentDeterminism ==
    (call.fn = "get_commitment" /\ SameCoin) => call.result[1] = call.result[2]

C18_Witness ==
    /\ call.fn = "get_commitment"
    /\ SameCoin
    /\ call.utxos[1].index # call.utxos[2].index
    /\ call.utxos[1].version # call.utxos[2].version
    /\ call.result[1] = call.result[2]

\* C13: under one key, decrypt(encrypt(p)) = p for every byte payload p, and
\* encrypt(p) is the 8-byte V2 tag, then the 12-byte nonce, then the
\* ciphertext with its tag.
C13_V2RoundTrip ==
    /\ (call.fn = "encrypt" /\ call.result.ok) =>
          LET message == call.result.value
          IN  /\ SubSeq(message, 1, 8) = ENCRYPTION_VERSION_V2
              /\ SubSeq(message, 9, 20) \in {random_iv(draw, 12) : draw \in IvDraws}
              /\ Len(message) = 8 + 12 + Len(call.data) + 16
    /\ (call.fn = "decrypt" /\ call.wire.version = "V2" /\ ~call.wire.tampered
           /\ call.wire.key = call.before) =>
          call.result = Ok(call.wire.plain)

C13_Witness ==
    /\ call.fn = "decrypt"
    /\ call.wire.version = "V2"
    /\ ~call.wire.tampered
    /\ call.wire.key = call.before
    /\ Len(call.wire.plain) = MaxPayload
    /\ call.result = Ok(call.wire.plain)

\* C14: decrypting V2 or V1 data with a key other than the one that encrypted
\* it, or data altered in any byte, returns DecryptionError; for V1 data the
\* error is that of the tag check, which precedes the decryption.
C14_AuthenticatedDecrypt ==
    (call.fn = "decrypt" /\ (call.wire.tampered \/ call.wire.key # call.before)) =>
        /\ ~call.result.ok
        /\ call.result.err.kind = "DecryptionError"
        /\ (call.wire.version = "V1" /\ get_encryption_version(call.wire.data) = "V1"
               /\ IsSome(call.before.encryption_key_v1))
              => call.result = DecryptionError("Invalid key or corrupted data")

C14_Witness ==
    /\ call.fn = "decrypt"
    /\ call.wire.version = "V1"
    /\ call.wire.tampered
    /\ call.wire.key = call.before
    /\ Len(call.wire.plain) > 0
    /\ call.result = DecryptionError("Invalid key or corrupted data")

\* The positions of the separators in the text of the last call.
SeparatorPositions == {i \in 1..Len(call.data) : call.data[i] = SEPARATOR}

\* The text between two positions is a decimal number: one digit or more.
IsDecimal(from, to) ==
    /\ from <= to
    /\ \A i \in from..to : call.data[i] \in {DIGITS[d] : d \in 1..10}

\* The text of the last call has four fields, the first three decimal.
WellFormed ==
    /\ Cardinality(SeparatorPositions) = 3
    /\ \E a, b, c \in SeparatorPositions :
          /\ a < b /\ b < c
          /\ IsDecimal(1, a - 1)
          /\ IsDecimal(a + 1, b - 1)
          /\ IsDecimal(b + 1, c - 1)

C16_WitnessRejected ==
    /\ call.fn = "deserialize_from_encryption"
    /\ Cardinality(SeparatorPositions) = 4
    /\ call.result = DecryptionError("Invalid UTXO format")

\* C15: under one service, decrypt_utxo(encrypt_utxo(u)) succeeds and yields
\* the amount, blinding and index of u.
C15_UtxoRoundTrip ==
    (call.fn = "decrypt_utxo" /\ IsSome(call.wire.utxo) /\ ~call.wire.tampered
        /\ call.wire.key = call.before) =>
        /\ call.result.ok
        /\ call.result.value.amount = Unwrap(call.wire.utxo).amount
        /\ call.result.value.blinding = Unwrap(call.wire.utxo).blinding
        /\ call.result.value.index = Unwrap(call.wire.utxo).index

C15_Witness ==
    /\ call.fn = "decrypt_utxo"
    /\ IsSome(call.wire.utxo)
    /\ ~call.wire.tampered
    /\ call.wire.key = call.before
    /\ call.result.ok
    /\ call.result.value.amount = 10
    /\ call.result.value.index = U64_MAX

\* The service holds keys.
KeysDerived == service # EncryptionService_new

Range(q) == {q[i] : i \in 1..Len(q)}

\* The transaction the deposit in progress, or just done, has assembled.
Tx == Unwrap(op.tx)

DepositFailedWith(kind) ==
    /\ dep.pc = "returned"
    /\ ~Unwrap(dep.result).ok
    /\ "err" \in DOMAIN Unwrap(dep.result)
    /\ Unwrap(dep.result).err.kind = kind

DepositOk == dep.pc = "returned" /\ Unwrap(dep.result).ok

\* wait_for_spl_confirmation is running.
Confirming == dep.pc \in {"sleep", "check"}

\* What holds of the confirmation wait at every moment: a sleep precedes each
\* check, every check that does not report the output counts one retry, the
\* wait goes on only while no check has reported it and fewer than
\* max_retries checks were made, and it ends with Ok on the report or with
\* ConfirmationTimeout{retries: max_retries} after max_retries checks.
ConfirmationBounded ==
    /\ dep.checks <= max_retries
    /\ dep.pc = "sleep" => dep.sleeps = dep.checks
    /\ dep.pc = "check" => dep.sleeps = dep.checks + 1
    /\ Confirming =>
          /\ dep.retries = dep.checks
          /\ dep.retries < max_retries
          /\ dep.last_response # "exists"
    /\ (dep.pc = "returned" /\ dep.checks > 0) =>
          /\ dep.sleeps = dep.checks
          /\ dep.last_response = "exists" =>
                (Unwrap(dep.result).ok /\ dep.retries = dep.checks - 1)
          /\ dep.last_response # "exists" =>
                /\ DepositFailedWith("ConfirmationTimeout")
                /\ Unwrap(dep.result).err.retries = max_retries
                /\ dep.checks = max_retries

NothingStarted ==
    /\ dep.relayer_requests = 0
    /\ dep.scans = 0
    /\ dep.prover_calls = 0
    /\ dep.submissions = 0
    /\ dep.checks = 0

\* C22: deposit_spl fails with TokenNotSupported for an unsupported mint,
\* with InsufficientTokenBalance{need = amount + fee, have} when the token
\* balance read is below amount + fee, and with InsufficientBalance{need:
\* 2_000_000, have} when the SOL balance read is below 2_000_000; each time
\* before any relayer request, scan, proof or submission.
C22_DepositPreconditions ==
    /\ (dep.pc # "idle" /\ find_token_by_mint(dep.mint) = None) =>
          /\ DepositFailedWith("TokenNotSupported")
          /\ NothingStarted
    /\ (IsSome(dep.token_balance)
          /\ Unwrap(dep.token_balance) < dep.base_units + fee_base_units) =>
          /\ DepositFailedWith("InsufficientTokenBalance")
          /\ Unwrap(dep.result).err.need = dep.base_units + fee_base_units
          /\ Unwrap(dep.result).err.have = Unwrap(dep.token_balance)
          /\ NothingStarted
    /\ (IsSome(dep.sol_balance) /\ Unwrap(dep.sol_balance) < 2000000) =>
          /\ DepositFailedWith("InsufficientBalance")
          /\ Unwrap(dep.result).err.need = 2000000
          /\ Unwrap(dep.result).err.have = Unwrap(dep.sol_balance)
          /\ NothingStarted
    /\ \A kind \in {"TokenNotSupported", "InsufficientTokenBalance", "InsufficientBalance"} :
          DepositFailedWith(kind) =>
              /\ NothingStarted
              /\ kind = "TokenNotSupported" => find_token_by_mint(dep.mint) = None
              /\ kind = "InsufficientTokenBalance" =>
                    Unwrap(dep.token_balance) < dep.base_units + fee_base_units
              /\ kind = "InsufficientBalance" => Unwrap(dep.sol_balance) < 2000000

\* A deposit whose token balance sufficed and whose SOL balance was one
\* lamport short.
C22_Witness ==
    /\ DepositFailedWith("InsufficientBalance")
    /\ dep.base_units > 0
    /\ Unwrap(dep.token_balance) = dep.base_units
    /\ Unwrap(dep.sol_balance) = 2000000 - 1

\* C23: deposit_spl is a strictly sequential pipeline, select inputs, prove,
\* submit, confirm: the prover is invoked at most once and only on an
\* assembled circuit input; if it fails the operation fails at once and
\* nothing is submitted; the confirmation wait runs only after the relayer
\* accepted the submission, and a refused submission ends the operation with
\* ApiError and without a single check.
C23_SequentialPipeline ==
    /\ dep.prover_calls <= 1
    /\ dep.submissions <= 1
    /\ dep.prover_calls = 1 => (dep.scans = 1 /\ IsSome(dep.tx))
    /\ dep.submissions = 1 => (dep.prover_calls = 1 /\ dep.proved = Some(TRUE))
    /\ dep.proved = Some(FALSE) =>
          /\ DepositFailedWith("ProofError")
          /\ dep.submissions = 0
          /\ dep.sleeps = 0 /\ dep.checks = 0
    /\ (Confirming \/ dep.sleeps > 0 \/ dep.checks > 0) =>
          (dep.submissions = 1 /\ dep.accepted = 1)
    /\ (dep.submissions = 1 /\ dep.accepted = 0) =>
          /\ DepositFailedWith("ApiError")
          /\ dep.sleeps = 0 /\ dep.checks = 0
    /\ DepositOk =>
          /\ dep.prover_calls = 1 /\ dep.submissions = 1 /\ dep.accepted = 1
          /\ dep.checks >= 1

\* The relayer refused a proved transaction.
C23_Witness ==
    /\ DepositFailedWith("ApiError")
    /\ dep.proved = Some(TRUE)
    /\ dep.submissions = 1
    /\ dep.accepted = 0
    /\ Len(dep.existing_utxos) > 0

\* Positions of the page whose item is hex, authenticates under the caller's
\* key and parses as a UTXO.
Decryptable ==
    {i \in 1..Len(call.encrypted_outputs) :
        /\ call.encrypted_outputs[i].form = "utxo"
        /\ call.encrypted_outputs[i].key = Me}

\* C24: an item that fails hex decoding, decryption or payload parsing is
\* skipped: decrypt_outputs returns, in page order, exactly the items that
\* decrypt, with their UTXOs, whatever stands before or between them; an
\* item that failed is in neither list, which is all the scanner builds its
\* result and its owned-output cache from.
C24_FailuresSkipped ==
    call.fn = "decrypt_outputs" =>
        LET page == call.encrypted_outputs
            outputs == call.result.outputs
            utxos == call.result.utxos
        IN  /\ Len(outputs) = Cardinality(Decryptable)
            /\ Len(utxos) = Len(outputs)
            /\ \A i \in Decryptable : \E k \in 1..Len(outputs) : outputs[k] = page[i]
            /\ \A k \in 1..Len(outputs) :
                  /\ outputs[k].form = "utxo" /\ outputs[k].key = Me
                  /\ utxos[k].amount = outputs[k].amount
                  /\ utxos[k].index = outputs[k].nonce - 1
                  /\ \A l \in 1..Len(outputs) : k < l => outputs[k].nonce < outputs[l].nonce

\* A page that opens with an item that is not hex and one that is no UTXO
\* payload, and ends with an output of the caller, which is returned.
C24_Witness ==
    /\ call.fn = "decrypt_outputs"
    /\ Len(call.encrypted_outputs) = MaxList
    /\ call.encrypted_outputs[1].form = "not hex"
    /\ call.encrypted_outputs[2].form = "not a utxo"
    /\ MaxList \in Decryptable
    /\ Len(call.result.outputs) >= 1
    /\ call.result.utxos[Len(call.result.utxos)].amount > 0

\* The circuit input of the deposit in progress.
DepTx == Unwrap(dep.tx)

\* The two outputs are the sum of the inputs plus the deposit minus the fee
\* at next_index, and zero at next_index + 1, both under the caller's V2
\* UTXO keypair and of the deposit's mint.
OutputsAsSpecified ==
    /\ Len(DepTx.inputs) = 2
    /\ Len(DepTx.outputs) = 2
    /\ DepTx.outputs[1].amount =
          DepTx.inputs[1].amount + DepTx.inputs[2].amount + dep.base_units - fee_base_units
    /\ DepTx.outputs[1].index = dep.next_index
    /\ DepTx.outputs[2].amount = 0
    /\ DepTx.outputs[2].index = dep.next_index + 1
    /\ \A k \in 1..2 :
          /\ DepTx.outputs[k].keypair = ZkKeypair(utxo_private_key(Me))
          /\ DepTx.outputs[k].version = "V2"
          /\ DepTx.outputs[k].mint_address = dep.mint

\* sum(inputs) + ext_amount - fee = sum(outputs).
Conserved ==
    DepTx.inputs[1].amount + DepTx.inputs[2].amount + DepTx.ext_amount - fee_base_units
        = DepTx.outputs[1].amount + DepTx.outputs[2].amount

\* C25: every circuit input deposit_spl assembles has exactly two outputs,
\* the first of amount (sum of the two inputs) + deposited amount - fee at
\* the next free index, the second of amount 0 at the following index, both
\* under the caller's V2 UTXO keypair and of the deposit's asset; hence
\* sum(inputs) + ext_amount - fee = sum(outputs).
C25_ValueConservation ==
    IsSome(dep.tx) => (OutputsAsSpecified /\ Conserved)

\* The outputs are always as specified, and value is conserved whenever the
\* deposited amount fits an i64.
ConservedWithinI64 ==
    IsSome(dep.tx) =>
        /\ OutputsAsSpecified
        /\ dep.base_units <= I64_MAX => Conserved
        /\ dep.base_units > I64_MAX => DepTx.ext_amount < 0

\* Input k of the circuit input is a dummy of the caller with the zero path.
DummyInput(k) ==
    /\ DepTx.inputs[k].amount = 0
    /\ DepTx.inputs[k].index = 0
    /\ DepTx.inputs[k].keypair = ZkKeypair(utxo_private_key(Me))
    /\ DepTx.inputs[k].mint_address = dep.mint
    /\ DepTx.in_path_elements[k] = zero_path

\* Input k is the k-th UTXO of the scan with the proof fetched for it.
RealInput(k) ==
    /\ DepTx.inputs[k] = dep.existing_utxos[k]
    /\ DepTx.in_path_elements[k] =
          fetch_merkle_proof(get_commitment(dep.existing_utxos[k]))

\* C26: with no unspent UTXO both inputs are dummies with the zero path; with
\* exactly one, the inputs are that UTXO with its fetched proof and a dummy
\* with the zero path; with two or more, the first two UTXOs of the scan,
\* each with its fetched proof.  There are always two inputs and two paths,
\* and an input has the zero path if and only if it is a dummy.
C26_InputSelection ==
    IsSome(dep.tx) =>
        /\ Len(DepTx.inputs) = 2
        /\ Len(DepTx.in_path_elements) = 2
        /\ Len(dep.existing_utxos) = 0 =>
              (DummyInput(1) /\ DummyInput(2) /\ dep.proofs = 0)
        /\ Len(dep.existing_utxos) = 1 =>
              (RealInput(1) /\ DummyInput(2) /\ dep.proofs = 1)
        /\ Len(dep.existing_utxos) >= 2 =>
              (RealInput(1) /\ RealInput(2) /\ dep.proofs = 2)
        /\ \A k \in 1..2 :
              DepTx.in_path_elements[k] = zero_path <=> is_dummy(DepTx.inputs[k])

\* A deposit on top of exactly one unspent UTXO.
C26_Witness ==
    /\ IsSome(dep.tx)
    /\ Len(dep.existing_utxos) = 1
    /\ RealInput(1)
    /\ DummyInput(2)
    /\ dep.pc = "prove"

\* A scanner run has returned an error other than Aborted.
ScanFailed ==
    /\ scan.pc = "returned"
    /\ ~Unwrap(scan.result).ok
    /\ ~ScanAborted

\* C27: in each page iteration the persisted fetch offset is written only
\* after the page was fetched, decrypted, its indices resolved and its spent
\* check done: while the page is in progress, and after a run that failed
\* in it, the persisted offset is the one from before the page; after the
\* iteration it is the page's start offset plus the number of outputs the
\* page returned.
C27_OffsetAfterClassification ==
    /\ (scan.pc \in {"fetch", "classify"} \/ ScanFailed) =>
          /\ storage.fetch_offset = scan.committed
          /\ stored_fetch_offset(storage) = scan.fetch_offset
          /\ scan.pages = 0 => storage.fetch_offset = scan.entry_storage.fetch_offset
    /\ ((scan.pc = "loop" /\ scan.pages > 0) \/ ScanOk) =>
          /\ storage.fetch_offset = Some(scan.fetch_offset + scan.len)
          /\ scan.len = Len(range_response(scan.fetch_offset).encrypted_outputs)

\* A run whose second page failed in the spent check: the persisted offset
\* is the start of that page.
C27_Witness ==
    /\ scan.pc = "returned"
    /\ scan.result = Some(Err("SolanaClientError"))
    /\ scan.pages = 1
    /\ scan.len > 0
    /\ storage.fetch_offset = Some(scan.fetch_offset)
    /\ scan.fetch_offset > 0

\* The start offset of the k-th page (k = 0, 1, ...) of the current run.
PageStart(k) == scan.round_start_index + k * FETCH_UTXOS_GROUP_SIZE

\* C28: within one scanner run the pages are fetched and applied in
\* increasing offset order: the request of each page starts where the page
\* before it ended (the first one at the offset persisted at entry), so no
\* page is requested twice and none is skipped; the run goes on after a page
\* exactly when the log reported more pages, and completes at the first
\* page for which it reports none.
C28_PageOrder ==
    /\ scan.pc \in {"fetch", "classify"} =>
          /\ scan.fetch_offset = PageStart(scan.pages)
          /\ scan.fetch_offset = stored_fetch_offset(storage)
          /\ \A j \in 0..(scan.pages - 1) : range_response(PageStart(j)).has_more
    /\ (scan.pc = "loop" /\ scan.pages > 0) =>
          /\ scan.has_more
          /\ scan.fetch_offset = PageStart(scan.pages - 1)
          /\ stored_fetch_offset(storage) = PageStart(scan.pages)
    /\ ScanOk =>
          /\ scan.pages > 0
          /\ scan.fetch_offset = PageStart(scan.pages - 1)
          /\ ~range_response(scan.fetch_offset).has_more
          /\ \A j \in 0..(scan.pages - 2) : range_response(PageStart(j)).has_more
          /\ stored_fetch_offset(storage) = Len(log)

\* A run that completed after two pages.
C28_Witness ==
    /\ ScanOk
    /\ scan.pages = 2
    /\ scan.fetch_offset = scan.round_start_index + FETCH_UTXOS_GROUP_SIZE

\* The encrypted outputs that decrypted as owned during the current run:
\* those of the pages from the offset at entry to the end of the log, and
\* those of the cache the last page was merged with.
DecryptedAsOwned ==
    {log[i] : i \in {j \in (scan.round_start_index + 1)..Len(log) :
                        IsSome(decrypt_utxo_from_hex(Me, log[j]))}}
    \cup {e \in UnwrapOr(scan.entry_storage.encrypted_outputs, {}) :
             IsSome(decrypt_utxo_from_hex(Me, e))}

\* Those of them that carry a non-zero amount and have no nullifier account.
DecryptedValid ==
    {e \in DecryptedAsOwned :
        /\ amount_u64(owner_utxo(e)) > 0
        /\ ~SpentOnLedger(owner_utxo(e))}

\* C29 as stated: when a scanner run completes, the persisted owned-output
\* set holds every encrypted output that was decrypted as owned during the
\* run.
C29_CacheHoldsAllOwned ==
    ScanOk => storage.encrypted_outputs = Some(DecryptedAsOwned)

\* C29, amended: when a scanner run completes, the persisted owned-output
\* set holds, each string once, exactly the encrypted outputs decrypted as
\* owned during the run that carry a non-zero amount and were found
\* unspent; owned outputs of amount zero and spent ones are left out.
C29_CacheHoldsValidOwned ==
    ScanOk =>
        /\ storage.encrypted_outputs = Some(DecryptedValid)
        /\ DecryptedValid = {scan.valid_strings[k] : k \in 1..Len(scan.valid_strings)}
        /\ Cardinality(DecryptedValid) = Len(scan.valid_strings)

\* A completed run that decrypted a spent owned output and an unspent one:
\* only the second is in the persisted set.
C29_Witness ==
    /\ ScanOk
    /\ \E e \in DecryptedAsOwned : SpentOnLedger(owner_utxo(e))
    /\ IsSome(storage.encrypted_outputs)
    /\ Unwrap(storage.encrypted_outputs) # {}
    /\ Unwrap(storage.encrypted_outputs) # DecryptedAsOwned

\* The sum of the amounts of the ledger outputs at the given log positions,
\* each position counted once.
RECURSIVE AmountAt(_)
AmountAt(positions) ==
    IF positions = {} THEN 0
    ELSE LET i == CHOOSE j \in positions : TRUE
         IN  log[i].amount + AmountAt(positions \ {i})

\* C30: the list a completed scanner run returns holds each owned output of
\* the log at most once, also when its last page was merged with the cached
\* owned outputs, and the balance summed from the list counts each of them
\* once.
C30_NoDoubleCount ==
    ScanOk =>
        /\ \A j, k \in 1..Len(ScanValue) : ScanValue[j].index = ScanValue[k].index => j = k
        /\ \A k \in 1..Len(ScanValue) :
              /\ ScanValue[k].index + 1 \in 1..Len(log)
              /\ ScanValue[k] = owner_utxo(log[ScanValue[k].index + 1])
        /\ get_balance_from_utxos(ScanValue) = AmountAt(ReturnedPositions)

\* A completed run whose only page was merged with a non-empty cache and
\* that returned an output of the page and one of the cache.
C30_Witness ==
    /\ ScanOk
    /\ UnwrapOr(scan.entry_storage.encrypted_outputs, {}) # {}
    /\ scan.round_start_index > 0
    /\ \E j, k \in 1..Len(ScanValue) :
          /\ ScanValue[j].index >= scan.round_start_index
          /\ ScanValue[k].index < scan.round_start_index

\* The node at position i of the given level of the full tree over the
\* leaves of t: the level's zero constant where no leaf lies below it.
RECURSIVE Node(_, _, _)
Node(t, level, i) ==
    IF i * (2 ^ level) >= Len(t.layers[1]) THEN t.zeros[level + 1]
    ELSE IF level = 0 THEN At(t.layers[1], i)
    ELSE poseidon_hash_strings(<<Node(t, level - 1, 2 * i), Node(t, level - 1, 2 * i + 1)>>)

\* C34: after any sequence of successful insert, update and bulk_insert
\* calls, root() is the root of the full tree of depth `levels` recomputed
\* from the current leaves with the level's zero constant at every missing
\* position; it is layers[levels][0], the only entry of the top layer, when
\* the tree holds a leaf, and zeros[levels] when it never received one.
C34_RootInvariant ==
    last.clean =>
        /\ root(tree) = Node(tree, tree.levels, 0)
        /\ IF next_index(tree) = 0
           THEN /\ tree.layers[tree.levels + 1] = <<>>
                /\ root(tree) = tree.zeros[tree.levels + 1]
           ELSE /\ Len(tree.layers[tree.levels + 1]) = 1
                /\ root(tree) = At(tree.layers[tree.levels + 1], 0)

\* An update past the end of the leaves of a tree of the greatest depth
\* succeeded, then an update of a left child whose right sibling holds a
\* leaf.
C34_Witness ==
    /\ last.op = "update"
    /\ last.clean
    /\ tree.levels = MaxLevels
    /\ last.arg[1] = 0
    /\ next_index(tree) > 2
    /\ At(elements(tree), 1) = F(1)
    /\ At(elements(tree), 2) = tree.zero_element

\* The leaves inserted one at a time with insert, in order: the tree the
\* calls leave behind and whether all of them returned Ok.
RECURSIVE InsertAll(_, _)
InsertAll(t, leaves) ==
    IF leaves = <<>> THEN [self |-> t, ok |-> TRUE]
    ELSE IF ~insert(t, Head(leaves)).ok THEN [self |-> after_insert(t, Head(leaves)), ok |-> FALSE]
    ELSE InsertAll(after_insert(t, Head(leaves)), Tail(leaves))

\* The leaves of the last bulk_insert fit in the capacity left before it.
BulkFits == Len(last.before.layers[1]) + Len(last.arg) <= last.before.capacity

C35_WitnessRefused ==
    /\ last.op = "bulk_insert"
    /\ ~last.result.ok
    /\ BulkFits

\* C36: whenever insert, update, bulk_insert or path returns an error, the
\* tree's leaves, upper layers, root and next_index are as before the call.
C36_FailedCallsChangeNothing ==
    (last.op \in {"insert", "update", "bulk_insert", "path"} /\ ~last.result.ok) =>
        /\ tree = last.before
        /\ elements(tree) = elements(last.before)
        /\ root(tree) = root(last.before)
        /\ next_index(tree) = next_index(last.before)

\* The calls refused by the capacity or the bounds check change nothing.
RefusedCallsChangeNothing ==
    (last.op \in {"insert", "update", "bulk_insert", "path"}
        /\ ~last.result.ok
        /\ last.result.err.kind = "MerkleProofError") => tree = last.before

\* The first 8 bytes of the data are the V2 tag.
OpensWithV2Tag(data) ==
    /\ Len(data) >= Len(ENCRYPTION_VERSION_V2)
    /\ SubSeq(data, 1, Len(ENCRYPTION_VERSION_V2)) = ENCRYPTION_VERSION_V2

\* The services that differ from svc at most in the keys of one version.
WithOtherV1Keys(svc) ==
    {[svc EXCEPT !.encryption_key_v1 = other.encryption_key_v1,
                 !.utxo_private_key_v1 = other.utxo_private_key_v1] :
        other \in {EncryptionService_new} \cup
                  {derive_encryption_key_from_wallet(w) : w \in Wallets}}

WithOtherV2Keys(svc) ==
    {[svc EXCEPT !.encryption_key_v2 = other.encryption_key_v2,
                 !.utxo_private_key_v2 = other.utxo_private_key_v2] :
        other \in {EncryptionService_new} \cup
                  {derive_encryption_key_from_wallet(w) : w \in Wallets}}

\* C37: decrypt handles data as V2 exactly when its first 8 bytes are the
\* V2 tag, and as V1 otherwise (data shorter than 8 bytes is refused with a
\* DecryptionError, as the V1 path refuses it); the outcome of the V2 path
\* does not depend on the V1 keys nor that of the V1 path on the V2 keys;
\* a UTXO decrypt_utxo returns carries the version of the format it was
\* read under and the keypair of that version's UTXO private key.
C37_VersionDispatch ==
    /\ call.fn = "decrypt" =>
          LET data == call.wire.data
              svc == call.before
          IN  /\ OpensWithV2Tag(data) =>
                    /\ call.result = decrypt_v2(svc, data)
                    /\ \A other \in WithOtherV1Keys(svc) : decrypt(other, data) = call.result
              /\ (~OpensWithV2Tag(data) /\ Len(data) >= Len(ENCRYPTION_VERSION_V2)) =>
                    /\ call.result = decrypt_v1(svc, data)
                    /\ \A other \in WithOtherV2Keys(svc) : decrypt(other, data) = call.result
              /\ Len(data) < Len(ENCRYPTION_VERSION_V2) =>
                    /\ ~call.result.ok
                    /\ call.result.err.kind = "DecryptionError"
                    /\ ~decrypt_v1(svc, data).ok
    /\ call.fn = "decrypt_utxo" =>
          LET data == call.wire.data
              svc == call.before
          IN  /\ OpensWithV2Tag(data) =>
                    \A other \in WithOtherV1Keys(svc) : decrypt_utxo(other, data) = call.result
              /\ ~OpensWithV2Tag(data) =>
                    \A other \in WithOtherV2Keys(svc) : decrypt_utxo(other, data) = call.result
              /\ call.result.ok =>
                    IF OpensWithV2Tag(data)
                    THEN /\ call.result.value.version = "V2"
                         /\ call.result.value.keypair =
                                ZkKeypair(Unwrap(svc.utxo_private_key_v2))
                    ELSE /\ call.result.value.version = "V1"
                         /\ call.result.value.keypair =
                                ZkKeypair(Unwrap(svc.utxo_private_key_v1))

\* A legacy UTXO was decrypted under the V1 keys of its owner.
C37_Witness ==
    /\ call.fn = "decrypt_utxo"
    /\ call.wire.version = "V1"
    /\ ~OpensWithV2Tag(call.wire.data)
    /\ call.result.ok
    /\ call.result.value.version = "V1"

\* A legacy message whose IV opens with the V2 tag was read as V2 and refused.
C37_WitnessTaggedIv ==
    /\ call.fn = "decrypt"
    /\ call.wire.version = "V1"
    /\ ~call.wire.tampered
    /\ call.wire.key = call.before
    /\ OpensWithV2Tag(call.wire.data)
    /\ ~call.result.ok

\* C38 as stated: after any sequence of set, remove and clear calls, get(k)
\* of either backend is the value of the latest set(k, v) that no remove(k)
\* and no clear() followed, and None otherwise.
C38_StorageSemantics ==
    \A k \in StorageKeys :
        /\ memory_get(storage.memory, k) = storage.latest[k]
        /\ file_get(storage.file, k) = storage.latest[k]

\* C38, amended: get(k) of the memory-backed Storage is the value of the
\* latest set(k, v) that no remove(k) and no clear() followed, else None;
\* get(k) of the file-backed one is the same, except that a key not yet
\* set, removed or cleared holds the content of the file of that name found
\* in the cache directory at construction; opened over an empty directory
\* the two backends give the same answers, whether or not the writes to the
\* disk succeed.
C38_StorageSemanticsSinceOpening ==
    /\ \A k \in StorageKeys :
          /\ memory_get(storage.memory, k) = storage.latest[k]
          /\ file_get(storage.file, k) \in
                {storage.latest[k], load_cache(storage.opened_over)[k]}
          /\ IsSome(storage.latest[k]) => file_get(storage.file, k) = storage.latest[k]
          /\ file_get(storage.file, k) # storage.latest[k] =>
                /\ storage.latest[k] = None
                /\ file_get(storage.file, k) = storage.file.cache[k]
    /\ storage.opened_over = EmptyDir =>
          \A k \in StorageKeys :
              file_get(storage.file, k) = memory_get(storage.memory, k)
    /\ call.fn = "get" =>
          (storage.opened_over = EmptyDir => call.file = call.memory)

\* On a storage opened over an empty directory, a key whose file another
\* key overwrote on the disk still reads its own value from both backends.
C38_Witness ==
    /\ call.fn = "get"
    /\ storage.opened_over = EmptyDir
    /\ call.key = "a:b"
    /\ call.file = Some("1")
    /\ call.memory = Some("1")
    /\ storage.file.disk["a_b"] = Some("2")

\* The log positions of the target's tree that hold an output of the
\* target's owner with a non-zero amount and no nullifier account.
OwnedUnspentOf(t) ==
    {i \in 1..Len(log[t.asset]) :
        LET utxo == decrypt_utxo_from_hex(t.owner, log[t.asset][i])
        IN  /\ IsSome(utxo)
            /\ amount_u64(Unwrap(utxo)) > 0
            /\ ~SpentOnLedger([Unwrap(utxo) EXCEPT !.index = i - 1])}

\* The list a run returned (none with an error), and the log positions of
\* its UTXOs.
RunValue(rn) == IF Unwrap(rn.result).ok THEN Unwrap(rn.result).value ELSE <<>>

RunPositions(rn) == {RunValue(rn)[k].index + 1 : k \in 1..Len(RunValue(rn))}

\* A run returned every owned unspent output of its tree, each once.
RunComplete(rn) ==
    /\ Unwrap(rn.result).ok
    /\ RunPositions(rn) = OwnedUnspentOf(rn.target)
    /\ Len(RunValue(rn)) = Cardinality(OwnedUnspentOf(rn.target))

\* The entries clear_cache is to remove: the fetch offset and the owned
\* outputs of the caller's own key and of its token accounts.
CallerEntries ==
    UNION {{offset_key(t), outputs_key(t)} : t \in {x \in Targets : x.owner = Me}}

\* C39: clear_cache removes the fetch-offset and owned-output entries of the
\* caller's own key and of the associated-account key of every supported
\* token and leaves every other storage entry as it was; a scanner run for
\* one of these keys that begins next reads offset 0 and no cached outputs,
\* and, left alone, fetches the log from its first page and returns every
\* owned unspent output.
C39_ClearCacheFullRefresh ==
    /\ last.op = "clear_cache" =>
          \A k \in EntryKeys :
              storage[k] = IF k \in CallerEntries THEN None ELSE last.before[k]
    /\ \A r \in Runs :
          (scan[r].pc # "idle" /\ scan[r].after_clear /\ scan[r].target.owner = Me) =>
              /\ scan[r].round_start_index = 0
              /\ scan[r].entry = EmptyStorage
              /\ (scan[r].pages = 0 /\ scan[r].pc \in {"fetch", "classify"}) =>
                     scan[r].fetch_offset = 0
              /\ (scan[r].pc = "returned" /\ ~scan[r].cleared) =>
                     /\ RunComplete(scan[r])
                     /\ scan[r].left.fetch_offset =
                            Some(to_string(Len(log[scan[r].target.asset])))

\* A token scan that completed after a clear_cache which removed the
\* token key's offset at the end of a log of two or more outputs, and left
\* the entry of the other owner and the unrelated entry in place.
C39_Witness ==
    LET rn == scan[1]
    IN  /\ rn.pc = "returned"
        /\ rn.after_clear
        /\ ~rn.cleared
        /\ rn.target = [owner |-> Me, asset |-> "SPL"]
        /\ Len(log.SPL) >= 2
        /\ last.before[offset_key(rn.target)] = Some(to_string(Len(log.SPL)))
        /\ last.before[outputs_key(rn.target)] # None
        /\ storage[offset_key([owner |-> Other, asset |-> "SOL"])] # None
        /\ storage[OtherEntry] # None
        /\ Len(RunValue(rn)) >= 2

\* The caller's SOL scan.
OwnSol == [owner |-> Me, asset |-> "SOL"]

\* No run is between its entry and its return.
NoRunInProgress == \A r \in Runs : ~InProgress(scan[r])

\* A run that begins now and is left alone returns every owned unspent
\* output of its tree.
LaterRunComplete(t) ==
    RunComplete(run_alone(run_begin(t, storage), storage).run)

\* The entries a complete run leaves: the length of the log as the offset
\* and the owned unspent outputs of the whole log.
CompleteEntries(t) ==
    [fetch_offset |-> Some(to_string(Len(log[t.asset]))),
     encrypted_outputs |-> Some([json |-> {log[t.asset][i] : i \in OwnedUnspentOf(t)}])]

C31_WitnessOverlap ==
    /\ scan[1].pc = "returned"
    /\ scan[2].pc = "returned"
    /\ scan[1].shared
    /\ scan[2].shared
    /\ scan[1].pages >= 2

\* What the run that has just returned would have returned, and left in its
\* two entries, had it run alone on the entries it found.
AloneFrom(rn) ==
    LET st == only_entries(rn.target, rn.entry)
        a == run_alone(run_begin(rn.target, st), st)
    IN  [ok |-> Unwrap(a.run.result).ok,
         positions |-> RunPositions(a.run), count |-> Len(RunValue(a.run)),
         left |-> entries_of(a.storage, rn.target)]

\* C32: scanner runs for different storage keys (different owners, or the
\* native asset and a token account of the same owner) that interleave
\* arbitrarily are independent: a step changes only the fetch-offset and
\* owned-output entries of the key of the run that takes it, and a run
\* returns the same UTXOs and leaves the same two entries as when it runs
\* alone on the entries it found.
C32_DifferentKeysIndependent ==
    [][/\ \A k \in EntryKeys :
             storage'[k] # storage[k] =>
                 \E r \in Runs :
                     /\ scan[r].pc = "classify"
                     /\ scan'[r] # scan[r]
                     /\ k \in {offset_key(scan[r].target), outputs_key(scan[r].target)}
       /\ \A r \in Runs :
             (InProgress(scan[r]) /\ scan'[r].pc = "returned") =>
                 LET alone == AloneFrom(scan'[r])
                 IN  /\ Unwrap(scan'[r].result).ok = alone.ok
                     /\ RunPositions(scan'[r]) = alone.positions
                     /\ Len(RunValue(scan'[r])) = alone.count
                     /\ entries_of(storage', scan[r].target) = alone.left]_vars

\* The caller's SOL scan has returned two outputs after two pages while its
\* token scan, begun before, is in its second page.
C32_Witness ==
    /\ scan[1].pc = "returned"
    /\ scan[1].pages >= 2
    /\ Len(RunValue(scan[1])) >= 1
    /\ scan[2].target = [owner |-> Me, asset |-> "SPL"]
    /\ scan[2].pc = "classify"
    /\ scan[2].pages = 1
    /\ storage[offset_key(scan[2].target)] # None
    /\ Len(scan[2].valid_utxos) = 1

\* The inclusion path of input k of the circuit input, as a MerklePath.
CircuitPath(k) ==
    [path_elements |-> Unwrap(dep.circuit_input).in_path_elements[k],
     path_indices |-> dep.paths[k].path_indices]

\* Every real input's path verifies against the root of the circuit input.
PathsVerifyAgainstCircuitRoot ==
    \A k \in 1..2 :
        ~is_dummy(dep.inputs[k]) =>
            verify(CircuitPath(k), get_commitment(dep.inputs[k]),
                   Unwrap(dep.circuit_input).root)

\* C33: in deposit_spl the Merkle root placed in the circuit input and the
\* inclusion paths fetched for the real inputs refer to the same accumulator
\* state: every real input's path verifies against circuit_input.root, also
\* when other parties append outputs to the ledger between the tree-state
\* request and the proof requests.
C33_RootAndPathsConsistent ==
    dep.pc = "built" => PathsVerifyAgainstCircuitRoot

\* When no output was appended between the tree-state request and the last
\* proof request, every real input's path verifies against the root.
PathsVerifyOnQuietLedger ==
    (dep.pc = "built" /\ ~dep.appended) => PathsVerifyAgainstCircuitRoot

====
